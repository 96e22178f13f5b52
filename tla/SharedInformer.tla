---------------------------- MODULE SharedInformer ----------------------------
(***************************************************************************)
(* client-go's shared informers as the handlers of this repository see     *)
(* them.  This is library code, modelled from its use: a watch keeps a     *)
(* store in step with the API server and hands every change to the         *)
(* registered handler, in order and one at a time.                         *)
(*                                                                         *)
(* Each watch follows one object.  Two objects of one real informer share  *)
(* a queue, but those of two namespaces (watch.namespaces) or of two       *)
(* resources do not: one queue per object is the loosest order that some   *)
(* configuration produces.                                                 *)
(***************************************************************************)
EXTENDS Naturals, Sequences

CONSTANTS
    Watches,        \* the watches
    Objects,        \* API objects
    objectOf,       \* the object a watch follows
    Revisions,      \* what an object can look like
    Absent,         \* an object that does not exist
    MaxPending      \* bound on the notifications queued for a handler

VARIABLES
    api,        \* object -> its current revision at the API server
    store,      \* watch -> the revision in the informer's store
    pending     \* watch -> notifications not yet handled, oldest first

ivars == <<api, store, pending>>

States == Revisions \cup {Absent}
Notifications == [type : {"add", "update", "delete", "tombstone"},
                  old : States, new : States]

Init ==
    /\ api \in [Objects -> States]
    /\ store = [w \in Watches |-> Absent]
    /\ pending = [w \in Watches |-> << >>]

\* A user or a controller creates, changes or deletes an object.
Write(o, rev) ==
    /\ api[o] # rev
    /\ api' = [api EXCEPT ![o] = rev]
    /\ UNCHANGED <<store, pending>>

Notify(w, type, old, new) ==
    /\ Len(pending[w]) < MaxPending
    /\ pending' = [pending EXCEPT ![w] =
           Append(@, [type |-> type, old |-> old, new |-> new])]

\* The watch catches up.  Revisions written in between are skipped, as by a
\* relist after a broken connection; a delete found by a relist arrives as a
\* tombstone (DeletedFinalStateUnknown) holding the last stored revision.
Observe(w) ==
    LET old == store[w]
        new == api[objectOf[w]]
    IN  /\ old # new
        /\ \/ old = Absent /\ Notify(w, "add", Absent, new)
           \/ old # Absent /\ new # Absent /\ Notify(w, "update", old, new)
           \/ new = Absent /\ \E type \in {"delete", "tombstone"} :
                                  Notify(w, type, old, Absent)
        /\ store' = [store EXCEPT ![w] = new]
        /\ UNCHANGED api

\* The periodic resync replays the stored revision as an update.  The real
\* queue is unbounded: here a resync leaves room for a change to be queued.
Resync(w) ==
    /\ store[w] # Absent
    /\ Len(pending[w]) + 1 < MaxPending
    /\ Notify(w, "update", store[w], store[w])
    /\ UNCHANGED <<api, store>>

\* The handler takes the oldest notification.
Take(w) ==
    /\ pending[w] # << >>
    /\ pending' = [pending EXCEPT ![w] = Tail(@)]
    /\ UNCHANGED <<api, store>>

\* All that was written has been handed to the handler of w.
Drained(w) == pending[w] = << >> /\ store[w] = api[objectOf[w]]

TypeOK ==
    /\ api \in [Objects -> States]
    /\ store \in [Watches -> States]
    /\ pending \in [Watches -> Seq(Notifications)]

-----------------------------------------------------------------------------
(* What every handler may rely on *)

\* The type of a notification says what happened to the object.
WellFormed(n) ==
    /\ n.type = "add" <=> n.old = Absent
    /\ n.type = "update" <=> n.old # Absent /\ n.new # Absent
    /\ n.type \in {"delete", "tombstone"} <=> n.new = Absent

\* A queue leads from last, the revision its handler had before, to the stored
\* one without a gap.
Linked(queue, last, stored) ==
    /\ \A i \in 1 .. Len(queue) : WellFormed(queue[i])
    /\ IF queue = << >> THEN last = stored
       ELSE queue[1].old = last /\ queue[Len(queue)].new = stored
    /\ \A i \in 1 .. (Len(queue) - 1) : queue[i].new = queue[i + 1].old

=============================================================================
