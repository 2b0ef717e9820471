---------------------------- MODULE StoredSettings ----------------------------
(***************************************************************************)
(* What the stored settings of the panel promise: registers that survive a *)
(* reset. A save takes effect in one step, between its call and its        *)
(* return; a reset may come at any time, and then the save has taken       *)
(* effect or it has not. A load gives the register's value, or the default *)
(* when there is none or the storage is not ready. Only a save changes a   *)
(* register, and only making the storage ready may clear one.              *)
(***************************************************************************)
CONSTANTS
  Keys,
  Values,
  Default,  \* Default[k]: what a load gives when nothing is stored
  NoValue

VARIABLES
  ready,    \* the storage may be used
  register, \* register[k]: the stored value, or NoValue
  request   \* the call under way

storeVars == <<ready, register, request>>

\* A request is "done" when the save has taken effect or the load has its value.
Request(op, key, value, phase) ==
  [op |-> op, key |-> key, value |-> value, phase |-> phase]

NoRequest == Request("none", NoValue, NoValue, "done")

StoreInit ==
  /\ ready = FALSE
  /\ register \in [Keys -> Values \cup {NoValue}]
  /\ request = NoRequest

BeginSave ==
  /\ request = NoRequest
  /\ \E k \in Keys, v \in Values : request' = Request("save", k, v, "begun")
  /\ UNCHANGED <<ready, register>>

SaveTakesEffect ==
  /\ ready
  /\ request.op = "save" /\ request.phase = "begun"
  /\ register' = [register EXCEPT ![request.key] = request.value]
  /\ request' = [request EXCEPT !.phase = "done"]
  /\ UNCHANGED ready

BeginLoad ==
  /\ request = NoRequest
  /\ \E k \in Keys : request' = Request("load", k, NoValue, "begun")
  /\ UNCHANGED <<ready, register>>

LoadReads ==
  /\ request.op = "load" /\ request.phase = "begun"
  /\ LET k == request.key
         v == IF ready /\ register[k] # NoValue THEN register[k] ELSE Default[k]
     IN request' = Request("load", k, v, "done")
  /\ UNCHANGED <<ready, register>>

End ==
  /\ request.phase = "done"
  /\ request' = NoRequest
  /\ UNCHANGED <<ready, register>>

BecomeReady ==
  /\ request = NoRequest
  /\ ready' = TRUE
  /\ UNCHANGED <<register, request>>

\* Storage that cannot be used as it is is cleared, perhaps not all at once.
Clear ==
  /\ ~ready
  /\ request = NoRequest
  /\ \E gone \in SUBSET Keys :
       register' = [k \in Keys |-> IF k \in gone THEN NoValue ELSE register[k]]
  /\ UNCHANGED <<ready, request>>

Crash ==
  /\ ready' = FALSE
  /\ request' = NoRequest
  /\ UNCHANGED register

StoreNext ==
  \/ BeginSave \/ SaveTakesEffect \/ BeginLoad \/ LoadReads \/ End
  \/ BecomeReady \/ Clear \/ Crash

StoreSpec == StoreInit /\ [][StoreNext]_storeVars
=============================================================================
