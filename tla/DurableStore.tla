---------------------------- MODULE DurableStore ----------------------------
(***************************************************************************)
(* What a DBImpl promises its callers over crashes: the entries it holds,  *)
(* which of them no crash can take away, and which are in doubt, because   *)
(* their Write has not returned or returned an error.  Everything else it  *)
(* does - switching memtables and logs, building and merging tables,       *)
(* deleting files, replaying logs - is no step of this module.             *)
(***************************************************************************)
EXTENDS Naturals

VARIABLES
    up,         \* the database is open
    issued,     \* entries ever begun, numbered from 1
    contents,   \* the entries a reader finds, or will find after DB::Open
    doubt,      \* other entries that DB::Open may still find
    durable,    \* entries that a crash of the machine leaves
    damaged     \* a record written in part has others after it

vars == <<up, issued, contents, doubt, durable, damaged>>

Init == /\ up = FALSE /\ issued \in Nat
        /\ contents = 1..issued /\ doubt = {} /\ durable = contents /\ damaged = FALSE

Begin == /\ up /\ issued' > issued
         /\ doubt' = doubt \cup (issued + 1)..issued'
         /\ UNCHANGED <<up, contents, durable, damaged>>

(* Entries become visible together, and never leave a database that is up; *)
(* those that were written with sync are durable at once.                  *)
Commit == /\ up /\ contents \subseteq contents'
          /\ contents' \subseteq contents \cup doubt
          /\ doubt' = doubt \ contents'
          /\ durable \subseteq durable' /\ durable' \subseteq contents'
          /\ UNCHANGED <<up, issued, damaged>>

(* More of the contents is durable, or an entry of a failed Write cannot   *)
(* come back any more.                                                     *)
Persist == /\ durable \subseteq durable' /\ durable' \subseteq contents
           /\ doubt' \subseteq doubt
           /\ UNCHANGED <<up, issued, contents, damaged>>

(* A close or a crash leaves what is durable, and maybe more. *)
Stop == /\ ~ up'
        /\ durable \subseteq durable' /\ durable' \subseteq contents'
        /\ contents' \subseteq contents \cup doubt
        /\ doubt' \subseteq (contents \cup doubt) \ contents'
        /\ UNCHANGED <<issued, damaged>>

Open == /\ ~ up /\ up'
        /\ durable \subseteq durable' /\ durable' \subseteq contents
        /\ doubt' \subseteq doubt
        /\ UNCHANGED <<issued, contents, damaged>>

(* A file that is damaged, or was, promises nothing. *)
Damage == /\ damaged \/ damaged'
          /\ issued' >= issued
          /\ contents' \subseteq 1..issued'

Next == Begin \/ Commit \/ Persist \/ Stop \/ Open \/ Damage

Spec == Init /\ [][Next]_vars
=============================================================================
