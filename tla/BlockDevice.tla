----------------------------- MODULE BlockDevice -----------------------------
(***************************************************************************)
(* What a disk promises: a request to read or write n sectors moves them   *)
(* one at a time and in order, between the memory of the one who asks and  *)
(* the sectors he named, and touches nothing else.  A request may fail at  *)
(* a sector that does not exist, and a write at any sector; what came      *)
(* before stays done.                                                      *)
(***************************************************************************)
EXTENDS Integers, Sequences

CONSTANTS
  DiskSize,  \* number of sectors
  Sector,    \* contents of a sector
  Requests   \* records with op ("read" or "write"), at, n and data, the
             \* sectors to write

VARIABLES
  disk,    \* contents of the sectors
  request, \* the request under way, or None
  done,    \* how many of its sectors were moved
  got,     \* the sectors it has read
  result   \* of the last request: "none", "ok" or "error"

vars == << disk, request, done, got, result >>

None == [ op |-> "none" ]

Init ==
    /\ disk \in [ 0 .. DiskSize - 1 -> Sector ]
    /\ request = None /\ done = 0 /\ got = <<>> /\ result = "none"

Submit ==
    /\ request = None
    /\ request' \in Requests
    /\ done' = 0 /\ got' = <<>> /\ result' = "none"
    /\ UNCHANGED disk

Position == request.at + done

MoveIn ==
    /\ request.op = "read" /\ done < request.n /\ Position < DiskSize
    /\ got' = Append(got, disk[Position])
    /\ done' = done + 1
    /\ UNCHANGED << disk, request, result >>

MoveOut ==
    /\ request.op = "write" /\ done < request.n /\ Position < DiskSize
    /\ disk' = [ disk EXCEPT ![Position] = request.data[done + 1] ]
    /\ done' = done + 1
    /\ UNCHANGED << request, got, result >>

Succeed ==
    /\ request # None /\ done = request.n
    /\ request' = None /\ result' = "ok" /\ done' = 0
    /\ UNCHANGED << disk, got >>

Fail ==
    /\ request # None /\ done < request.n
    /\ request.op = "write" \/ Position >= DiskSize
    /\ request' = None /\ result' = "error" /\ done' = 0
    /\ UNCHANGED << disk, got >>

\* The one who asked lets the answer go.
Forget ==
    /\ request = None
    /\ got' = <<>> /\ result' = "none"
    /\ UNCHANGED << disk, request, done >>

Next == Forget \/ Submit \/ MoveIn \/ MoveOut \/ Succeed \/ Fail

Spec == Init /\ [][Next]_vars
=============================================================================
