----------------------------- MODULE CheckSingle -----------------------------
(***************************************************************************)
(* porcupine's linearizability check of one partition                      *)
(* (Lab3/src/porcupine/checker.go) with the key-value model of             *)
(* Lab3/src/models/kv.go, from the operations of a test to the partial     *)
(* linearizations that visualization.go shows.  The search keeps the calls *)
(* and returns not yet linearized in a doubly linked list, and undoes its  *)
(* changes to the list when it backtracks.                                 *)
(*                                                                         *)
(* A node of the list is the position of its entry, HeadEntry the node     *)
(* before them, Nil the end.  The cache, whose buckets are scanned to the  *)
(* end, is a set of entries with the hash that finds their bucket.         *)
(* Operations are numbered in the order of their calls: another numbering  *)
(* of the history only renames them.                                       *)
(***************************************************************************)
EXTENDS Bitset, SequencesExt

CONSTANTS
  N,          \* bound: operations in the history
  Inputs,     \* what they are: [op, value], value of a get its output
  MaxTime     \* bound: the clock

VARIABLES history, entries, list, entry, calls, state, linearized, cache, longest, kill, pc,
          partials, largest

vars == <<history, entries, list, entry, calls, state, linearized, cache, longest, kill, pc,
          partials, largest>>
search == <<list, entry, calls, state, linearized, cache, longest>>
info == <<partials, largest>>

Ids == 1 .. N
Nodes == 1 .. 2 * N
HeadEntry == 0
Nil == 2 * N + 1
Operations == {o \in [input : Inputs, call : 1 .. MaxTime, return : 1 .. MaxTime] : o.call <= o.return}

----------------------------------------------------------------------------
(* KvModel *)

Step(st, in) ==
  CASE in.op = "get" -> [ok |-> in.value = st, state |-> st]
    [] in.op = "put" -> [ok |-> TRUE, state |-> in.value]
    [] in.op = "append" -> [ok |-> TRUE, state |-> st \o in.value]

InitState == << >>

(* Steps taken in the order of seq; ok as long as each was possible. *)
Replay(seq) ==
  FoldLeft(LAMBDA acc, id : LET s == Step(acc.state, history[id].input)
                            IN  [ok |-> acc.ok /\ s.ok, state |-> s.state],
           [ok |-> TRUE, state |-> InitState], seq)

----------------------------------------------------------------------------
(* Entries: a call and a return of each operation, sorted by time. *)

Entry(kind, id) == [kind |-> kind, id |-> id]
Unsorted == [i \in Nodes |-> IF i % 2 = 1 THEN Entry("call", (i + 1) \div 2)
                                          ELSE Entry("return", i \div 2)]
Orders == {[i \in Nodes |-> Unsorted[p[i]]] : p \in Permutations(Nodes)}
Time(e) == IF e.kind = "call" THEN history[e.id].call ELSE history[e.id].return

WrongLess(a, b) == Time(a) < Time(b)
Less(a, b) ==
  \/ Time(a) < Time(b)
  \/ Time(a) = Time(b) /\ a.kind = "call" /\ b.kind = "return"

(* sort.Sort is not stable: any order that Less allows. *)
Sorted(s) == \A i \in 1 .. 2 * N - 1 : ~Less(s[i + 1], s[i])

----------------------------------------------------------------------------
(* The linked list. *)

makeLinkedEntries == [next |-> [n \in {HeadEntry} \cup Nodes |-> n + 1],
                      prev |-> [n \in Nodes \cup {Nil} |-> n - 1]]

IsCall(n) == entries[n].kind = "call"
match(n) == CHOOSE r \in Nodes : entries[r] = Entry("return", entries[n].id)

Unlink(l, n) == [next |-> [l.next EXCEPT ![l.prev[n]] = l.next[n]],
                 prev |-> [l.prev EXCEPT ![l.next[n]] = l.prev[n]]]
Relink(l, n) == [next |-> [l.next EXCEPT ![l.prev[n]] = n],
                 prev |-> [l.prev EXCEPT ![l.next[n]] = n]]

lift(l, n) == Unlink(Unlink(l, n), match(n))
unlift(l, n) == Relink(Relink(l, match(n)), n)

----------------------------------------------------------------------------

Init ==
  /\ history \in {h \in [Ids -> Operations] : \A i \in 1 .. N - 1 : h[i].call <= h[i + 1].call}
  /\ entries = << >>
  /\ list = makeLinkedEntries
  /\ entry = 1
  /\ calls = << >>
  /\ state = InitState
  /\ linearized = newBitset(N)
  /\ cache = {}
  /\ longest = [id \in Ids |-> << >>]         \* << >> is nil
  /\ kill = FALSE
  /\ pc = "make"
  /\ partials = << >>
  /\ largest = << >>

makeEntries ==
  /\ pc = "make"
  /\ \E s \in Orders : Sorted(s) /\ entries' = s
  /\ pc' = "loop"
  /\ UNCHANGED <<history, search, kill, info>>

(* What checkParallel does when another partition has failed or time is up. *)
Kill ==
  /\ ~kill
  /\ pc \in {"make", "loop"}
  /\ kill' = TRUE
  /\ UNCHANGED <<history, entries, search, pc, info>>

----------------------------------------------------------------------------
(* The loop of checkSingle, one action per way through its body. *)

Looping == pc = "loop" /\ list.next[HeadEntry] # Nil

WrongIdsOf(s) == Reverse([i \in DOMAIN s |-> entries[s[i].entry].id])
IdsOf(s) == [i \in DOMAIN s |-> entries[s[i].entry].id]

Killed ==
  /\ Looping
  /\ kill
  /\ pc' = "false"
  /\ UNCHANGED <<history, entries, search, kill, info>>

Result == Step(state, history[entries[entry].id].input)
newLinearized == set(linearized, entries[entry].id - 1)
NewCacheEntry == [hash |-> hash(newLinearized), linearized |-> newLinearized, state |-> Result.state]
cacheContains ==
  \E e \in cache : /\ e.hash = hash(newLinearized)
                   /\ equals(e.linearized, newLinearized)
                   /\ e.state = Result.state

Linearize ==
  /\ Looping /\ ~kill
  /\ IsCall(entry) /\ Result.ok /\ ~cacheContains
  /\ cache' = cache \cup {NewCacheEntry}
  /\ calls' = Append(calls, [entry |-> entry, state |-> state])
  /\ state' = Result.state
  /\ linearized' = newLinearized
  /\ list' = lift(list, entry)
  /\ entry' = list'.next[HeadEntry]
  /\ UNCHANGED <<history, entries, longest, kill, pc, info>>

Skip ==
  /\ Looping /\ ~kill
  /\ IsCall(entry) /\ (~Result.ok \/ cacheContains)
  /\ entry' = list.next[entry]
  /\ UNCHANGED <<history, entries, list, calls, state, linearized, cache, longest, kill, pc, info>>

GiveUp ==
  /\ Looping /\ ~kill
  /\ ~IsCall(entry) /\ calls = << >>
  /\ pc' = "false"
  /\ UNCHANGED <<history, entries, search, kill, info>>

WrongLonger(seq) == [id \in Ids |-> IF id \in Range(seq) THEN seq ELSE longest[id]]
Longer(seq) ==
  [id \in Ids |-> IF id \in Range(seq) /\ Len(seq) > Len(longest[id]) THEN seq ELSE longest[id]]

WrongRest == calls
Rest == Front(calls)

Backtrack ==
  LET top == Last(calls) IN
  /\ Looping /\ ~kill
  /\ ~IsCall(entry) /\ calls # << >>
  /\ longest' = Longer(IdsOf(calls))
  /\ state' = top.state
  /\ linearized' = clear(linearized, entries[top.entry].id - 1)
  /\ calls' = Rest
  /\ list' = unlift(list, top.entry)
  /\ entry' = list'.next[top.entry]
  /\ UNCHANGED <<history, entries, cache, kill, pc, info>>

Finish ==
  /\ pc = "loop" /\ list.next[HeadEntry] = Nil
  /\ longest' = [id \in Ids |-> IdsOf(calls)]
  /\ pc' = "true"
  /\ UNCHANGED <<history, entries, list, entry, calls, state, linearized, cache, kill, info>>

----------------------------------------------------------------------------
(* checkParallel's set of partial linearizations, and what                 *)
(* computeVisualizationData makes of it after a verdict of Illegal: sorted *)
(* by size (not stably), replayed, with the first and so largest one that  *)
(* contains each operation.  A replay that fails is a panic.               *)
Unique == {longest[id] : id \in Ids} \ {<< >>}
Largest(ps) ==
  [id \in {i \in Ids : \E p \in Range(ps) : i \in Range(p)}
     |-> CHOOSE k \in DOMAIN ps : id \in Range(ps[k]) /\ \A j \in 1 .. k - 1 : id \notin Range(ps[j])]

computeVisualizationData ==
  /\ pc = "false"
  /\ \E ps \in SetToSeqs(Unique) :
       /\ \A i \in 1 .. Len(ps) - 1 : Len(ps[i]) >= Len(ps[i + 1])
       /\ partials' = ps
       /\ largest' = Largest(ps)
  /\ pc' = IF \A p \in Unique : Replay(p).ok THEN "shown" ELSE "panic"
  /\ UNCHANGED <<history, entries, search, kill>>

Over == pc \in {"true", "shown"} /\ UNCHANGED vars

checkSingle == makeEntries \/ Killed \/ Linearize \/ Skip \/ GiveUp \/ Backtrack \/ Finish
Next == checkSingle \/ Kill \/ computeVisualizationData \/ Over

Spec == Init /\ [][Next]_vars

(* The goroutine runs while it has something to do (weak fairness of       *)
(* checkSingle, whose enabling condition this is).                         *)
Searching == pc \in {"make", "loop"}
FairSpec == Spec /\ ([]<>~Searching \/ []<><<checkSingle>>_vars)

----------------------------------------------------------------------------
(* The reference: sequences of operations that respect real time, each     *)
(* possible in the state the ones before it leave.                         *)
Precedes(a, b) == history[a].return < history[b].call
Distinct == {s \in UNION {[1 .. k -> Ids] : k \in 0 .. N} : \A i, j \in DOMAIN s : s[i] = s[j] => i = j}
LinearizablePrefixes ==
  {s \in Distinct : /\ \A i \in DOMAIN s, b \in Ids :
                         Precedes(b, s[i]) => b \in {s[j] : j \in 1 .. i - 1}
                    /\ Replay(s).ok}
Linearizable == \E s \in LinearizablePrefixes : Len(s) = N

(* The verdict is right for every history, whatever order the sort leaves  *)
(* among entries of equal time, and however often the search backtracks    *)
(* through a list it has cut; a search that was stopped says nothing.      *)
VerdictRight ==
  /\ pc = "true" => Linearizable
  /\ pc \in {"false", "shown"} /\ ~kill => ~Linearizable

(* "longest linearizable prefix that includes the given entry": a search   *)
(* that was not stopped shows, for each operation, a prefix with it that   *)
(* no other exceeds, although the cache has cut branches off.              *)
LargestIsLongest ==
  pc = "shown" /\ ~kill =>
    \A id \in Ids :
      LET lens == {Len(s) : s \in {p \in LinearizablePrefixes : id \in Range(p)}} IN
      IF id \in DOMAIN largest
      THEN Len(partials[largest[id]]) \in lens /\ \A l \in lens : l <= Len(partials[largest[id]])
      ELSE lens = {}

(* "valid partial linearization returned non-ok result from model step"    *)
(* never happens, not even for what a stopped search leaves.               *)
PartialsReplay == pc # "panic"

(* The search ends. *)
SearchEnds == <>(pc \in {"true", "false"})
=============================================================================
