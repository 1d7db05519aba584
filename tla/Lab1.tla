-------------------------------- MODULE Lab1 --------------------------------
(***************************************************************************)
(* The programs of Lab1 together.  The user of Client/main.go says at its  *)
(* start whether it talks to the server itself or through the proxy.  The  *)
(* two ways have no state in common (HttpServer; Proxy, for which any      *)
(* server is behind it), so no interleaving of steps of one with steps of  *)
(* the other shows more than each alone: in a behaviour all clients go the *)
(* same way.                                                               *)
(***************************************************************************)
EXTENDS HttpServer

CONSTANTS
  Proxied,      \* the clients that use the proxy
  Reachable,    \* those of them whose server can be dialled
  Methods,      \* what they ask for
  MaxProxied    \* bound: requests of one of them

VARIABLES
  way,          \* "server" or "proxy"
  proxyUp, proxyLoop, proxyConn, wire, server, proxyHandler, answers, proxyClient, proxySent

proxyVars ==
  <<proxyUp, proxyLoop, proxyConn, wire, server, proxyHandler, answers, proxyClient, proxySent>>
labVars == <<way, vars, proxyVars>>

P == INSTANCE Proxy WITH
  Clients <- Proxied, MaxRequests <- MaxProxied,
  up <- proxyUp, loop <- proxyLoop, conn <- proxyConn, handler <- proxyHandler,
  client <- proxyClient, sent <- proxySent

LabInit ==
  /\ way \in {"server", "proxy"}
  /\ Init
  /\ P!Init

LabNext ==
  \/ way = "server" /\ Next /\ UNCHANGED <<way, proxyVars>>
  \/ way = "proxy" /\ P!Next /\ UNCHANGED <<way, vars>>

LabSpec == LabInit /\ [][LabNext]_labVars /\ Fairness /\ P!Fairness

----------------------------------------------------------------------------
(* The properties of Proxy *)

(* P!EndsOnlyOnArrival: the proxy's process ends only by an Accept that    *)
(* failed or by an address that is missing, bad or read together with a    *)
(* request (main.go:29-41).                                                *)
EndsOnlyOnArrival == P!EndsOnlyOnArrival

(* P!Accepted: the accept loop gets to every client if none stays silent.  *)
Accepted == P!Accepted
=============================================================================
