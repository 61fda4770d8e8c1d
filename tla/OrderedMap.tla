----------------------------- MODULE OrderedMap -----------------------------
(***************************************************************************)
(* What a skip list promises to the index built on it: a map from keys to  *)
(* values whose lookups, insertions and removals happen in one step        *)
(* between their call and their return, and a range scan that is not       *)
(* atomic but never misses a key that was there all the time and never     *)
(* returns an entry that was not there at all.                             *)
(***************************************************************************)
EXTENDS Naturals, Sequences, SequencesExt

CONSTANTS Threads,
          Keys,      \* naturals
          Vals,
          Absent,    \* the key has no entry (GetValue: MaxUint64)
          NoCall,    \* the thread is outside the map
          Ranges     \* pairs <<lo, hi>> that scans ask for

VARIABLES
  map,     \* Keys -> Vals or Absent
  call,    \* Threads -> the request the thread is in, or NoCall
  ret,     \* Threads -> what the last call returned
  window   \* Threads -> the entries a running scan must, and may, return

vars == <<map, call, ret, window>>

Entry == [key : Keys, val : Vals]

Request == [op : {"get", "remove"}, key : Keys]
           \cup [op : {"insert"}, key : Keys, val : Vals]
           \cup [op : {"scan"}, range : Ranges]

Entries(m) == {e \in Entry : m[e.key] = e.val}

InRange(e, range) == range[1] <= e.key /\ e.key <= range[2]

Ascending(s) == \A i \in 1..(Len(s) - 1) : s[i].key < s[i + 1].key

NoWindow == [must |-> {}, may |-> {}]

(***************************************************************************)
(* The entries seen since the scan of t began: the ones that stayed and    *)
(* the ones that were there at some time.                                  *)
(***************************************************************************)
Observe(t, old, before, after, m) ==
  IF after = NoCall \/ after.op # "scan" THEN NoWindow
  ELSE IF before = NoCall THEN [must |-> Entries(m), may |-> Entries(m)]
  ELSE [must |-> old.must \cap Entries(m), may |-> old.may \cup Entries(m)]

Call(t, r) ==
  /\ call[t] = NoCall
  /\ call' = [call EXCEPT ![t] = r]
  /\ ret' = [ret EXCEPT ![t] = Absent]
  /\ UNCHANGED map

Return(t, result) ==
  /\ call' = [call EXCEPT ![t] = NoCall]
  /\ ret' = [ret EXCEPT ![t] = result]

Get(t) ==
  /\ call[t] # NoCall /\ call[t].op = "get"
  /\ Return(t, map[call[t].key])
  /\ UNCHANGED map

Insert(t) ==
  /\ call[t] # NoCall /\ call[t].op = "insert"
  /\ map' = [map EXCEPT ![call[t].key] = call[t].val]
  /\ Return(t, TRUE)

RemoveKey(t) ==
  /\ call[t] # NoCall /\ call[t].op = "remove"
  /\ map' = [map EXCEPT ![call[t].key] = Absent]
  /\ Return(t, map[call[t].key] # Absent)

Scan(t, s) ==
  /\ call[t] # NoCall /\ call[t].op = "scan"
  /\ Ascending(s)
  /\ {e \in window[t].must : InRange(e, call[t].range)} \subseteq ToSet(s)
  /\ ToSet(s) \subseteq {e \in window[t].may : InRange(e, call[t].range)}
  /\ Return(t, s)
  /\ UNCHANGED map

Init ==
  /\ map \in [Keys -> Vals \cup {Absent}]
  /\ call = [t \in Threads |-> NoCall]
  /\ ret = [t \in Threads |-> Absent]
  /\ window = [t \in Threads |-> NoWindow]

(***************************************************************************)
(* A scan's result is named in the next state, so that the choice of s     *)
(* needs no enumeration of sequences.                                      *)
(***************************************************************************)
Next ==
  /\ \E t \in Threads :
       \/ call'[t] \in Request /\ Call(t, call'[t])
       \/ Get(t) \/ Insert(t) \/ RemoveKey(t)
       \/ ret'[t] # Absent /\ Scan(t, ret'[t])
  /\ window' = [t \in Threads |-> Observe(t, window[t], call[t], call'[t], map')]

Spec == Init /\ [][Next]_vars

=============================================================================
