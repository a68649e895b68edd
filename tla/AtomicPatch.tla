------------------------------ MODULE AtomicPatch ------------------------------
(***************************************************************************)
(* What auto-remediation promises to the owners of the objects it patches: *)
(* a remediation is one atomic step. It happens while the object still is  *)
(* the one, at the version, that the remediation was derived from, it      *)
(* changes the image and nothing else, and it is only reported once it has *)
(* been made.                                                              *)
(*                                                                         *)
(* There are no snapshots, informers, controllers, retries or phases here. *)
(* Remediation, which takes a dozen calls to the API server for it, is     *)
(* shown to implement this specification.                                  *)
(***************************************************************************)
EXTENDS Naturals

CONSTANTS
    Target,     \* the objects, by name
    Key,        \* the remediations: of which finding, about which UID
    TargetFor(_),  \* the object a remediation is about
    UidFor(_),  \* the UID of it
    Uid, NoUid,
    Image, NoImage

VARIABLES
    object,     \* the objects: UID, version and image
    last,       \* the last version given
    given,      \* the UIDs given so far
    patches,    \* the remediations made, each with the version it replaced
    reports     \* those that are reported as made

avars == <<object, last, given, patches, reports>>

None == [uid |-> NoUid, rv |-> 0, image |-> NoImage]

Init ==
    /\ object = [t \in Target |-> None]
    /\ last = 0
    /\ given = {}
    /\ patches = {}
    /\ reports = {}

\* Object t has a new version, with UID u and image i.
Put(t, u, i) ==
    /\ last' = last + 1
    /\ object' = [object EXCEPT ![t] = [uid |-> u, rv |-> last + 1, image |-> i]]

Create(t) ==
    /\ object[t].uid = NoUid
    /\ \E u \in Uid \ given, i \in Image : Put(t, u, i) /\ given' = given \cup {u}
    /\ UNCHANGED <<patches, reports>>

\* An edit by anyone else, or a report on the object's status.
Write(t) ==
    /\ object[t].uid # NoUid
    /\ \E i \in Image : Put(t, object[t].uid, i)
    /\ UNCHANGED <<given, patches, reports>>

Delete(t) ==
    /\ object[t].uid # NoUid
    /\ object' = [object EXCEPT ![t] = None]
    /\ UNCHANGED <<last, given, patches, reports>>

\* The remediation: a compare-and-swap of the image.
Patch(k) ==
    LET t == TargetFor(k) IN
    /\ object[t].uid = UidFor(k)
    /\ \E i \in Image \ {object[t].image} : Put(t, UidFor(k), i)
    /\ patches' = patches \cup {[key |-> k, version |-> object[t].rv]}
    /\ UNCHANGED <<given, reports>>

Report(p) ==
    /\ p \in patches
    /\ reports' = reports \cup {p}
    /\ UNCHANGED <<object, last, given, patches>>

Forget(p) ==
    /\ p \in reports
    /\ reports' = reports \ {p}
    /\ UNCHANGED <<object, last, given, patches>>

Next ==
    \/ \E t \in Target : Create(t) \/ Write(t) \/ Delete(t)
    \/ \E k \in Key : Patch(k)
    \/ \E p \in patches : Report(p)
    \/ \E p \in reports : Forget(p)

Spec == Init /\ [][Next]_avars
================================================================================
