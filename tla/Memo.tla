-------------------------------- MODULE Memo --------------------------------
(***************************************************************************)
(* What the database promises its callers, with no builds, no waiting and  *)
(* no locks: every identifier is settled at most once, by a value or by    *)
(* the failure of its Resolvable, and a call returns what its identifier   *)
(* was settled to.  The one other way out of a call is the cancellation of *)
(* the caller's own context.                                               *)
(***************************************************************************)
CONSTANTS Ids, Callers, BlobFuncs, MayFail, Nil

VARIABLES
  records,     \* identifiers stored
  settled,     \* "no", "value" or "failed", for each identifier
  busy,        \* callers in a call
  want,        \* the identifier of the call
  cancelled,   \* callers whose context is cancelled
  background,  \* callers whose result nobody waits for
  ret,         \* what the last call returned
  panicked

vars == <<records, settled, busy, want, cancelled, background, ret, panicked>>

Init ==
  /\ records = {}
  /\ settled = [i \in Ids |-> "no"]
  /\ busy = {}
  /\ want = [c \in Callers |-> Nil]
  /\ cancelled = {}
  /\ background = {}
  /\ ret = [c \in Callers |-> "none"]
  /\ panicked = FALSE

Store(c, i) ==
  /\ c \notin busy
  /\ records' = records \cup {i}
  /\ busy' = busy \cup {c}
  /\ want' = [want EXCEPT ![c] = i]
  /\ ret' = [ret EXCEPT ![c] = "none"]
  /\ UNCHANGED <<settled, cancelled, background, panicked>>

Call(c, i) ==
  /\ c \notin busy
  /\ busy' = busy \cup {c}
  /\ want' = [want EXCEPT ![c] = i]
  /\ ret' = [ret EXCEPT ![c] = "none"]
  /\ UNCHANGED <<records, settled, cancelled, background, panicked>>

Settle(i) ==
  /\ i \in records
  /\ settled[i] = "no"
  /\ \E v \in {"value", "failed"} : settled' = [settled EXCEPT ![i] = v]
  /\ UNCHANGED <<records, busy, want, cancelled, background, ret, panicked>>

Cancel(c) ==
  /\ c \in busy \ background
  /\ cancelled' = cancelled \cup {c}
  /\ UNCHANGED <<records, settled, busy, want, background, ret, panicked>>

\* What a call for want[c] may return.
Answer(c) ==
  (IF c \in cancelled THEN {"cancelled"} ELSE {})
  \cup (IF want[c] \notin records THEN {"notfound"} ELSE {"ok"})
  \cup (IF want[c] \in records /\ settled[want[c]] # "no"
          THEN {settled[want[c]]} ELSE {})
  \cup (IF want[c] \in BlobFuncs \cap MayFail THEN {"failed"} ELSE {})

Return(c) ==
  /\ c \in busy
  /\ \E o \in Answer(c) :
       ret' = [ret EXCEPT ![c] = IF c \in background THEN @ ELSE o]
  /\ busy' = busy \ {c}
  /\ cancelled' = cancelled \ {c}
  /\ background' = background \ {c}
  /\ want' = [want EXCEPT ![c] = Nil]
  /\ UNCHANGED <<records, settled, panicked>>

\* GetOrBuild: the value is not there yet, the call goes on without its caller.
Postpone(c) ==
  /\ c \in busy \ background
  /\ settled[want[c]] = "no"
  /\ ret' = [ret EXCEPT ![c] = "pending"]
  /\ background' = background \cup {c}
  /\ cancelled' = cancelled \ {c}
  /\ UNCHANGED <<records, settled, busy, want, panicked>>

Panic == panicked' = TRUE /\ UNCHANGED <<records, settled, busy, want,
                                         cancelled, background, ret>>

Next ==
  \/ \E c \in Callers :
       \/ \E i \in Ids : Store(c, i) \/ Call(c, i)
       \/ Cancel(c) \/ Return(c) \/ Postpone(c)
  \/ \E i \in Ids : Settle(i)
  \/ Panic

Spec == Init /\ [][Next]_vars
=============================================================================
