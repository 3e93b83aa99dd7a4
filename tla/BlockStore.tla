----------------------------- MODULE BlockStore -----------------------------
(***************************************************************************)
(* What a disk behind a queue of requests promises: each request takes     *)
(* effect at one moment between its submission and its answer, and is      *)
(* answered once, with the data or the reason that belong to that moment.  *)
(* Requests may overtake each other.  A reset forgets those not answered:  *)
(* each of them has taken effect by then or never will.                    *)
(***************************************************************************)
EXTENDS Integers, Sequences

CONSTANTS
  Ids,       \* names of requests under way
  Block,     \* contents of a block
  Requests   \* records with op, at, n and data, the blocks to write

VARIABLES
  blocks,  \* the disk: a sequence of blocks
  call,    \* per name: the request, asked or performed
  answer,  \* per name: what its last request was answered
  answered \* number of answers

vars == << blocks, call, answer, answered >>

Idle     == [ st |-> "idle" ]
NoAnswer == [ result |-> "none", data |-> <<>> ]

Init ==
    /\ blocks \in Seq(Block)
    /\ call = [ i \in Ids |-> Idle ]
    /\ answer = [ i \in Ids |-> NoAnswer ] /\ answered = 0

Ask(i) ==
    /\ call[i] = Idle
    /\ \E r \in Requests : call' = [ call EXCEPT ![i] = [ st |-> "asked", req |-> r ] ]
    /\ UNCHANGED << blocks, answer, answered >>

Performed(r, result, data) ==
    [ st |-> "performed", req |-> r, result |-> result, data |-> data ]

InRange(r) == r.at < Len(blocks) /\ r.at + r.n <= Len(blocks)

WithBlocks(r, k) ==
    [ b \in 1 .. Len(blocks) |->
        IF b \in r.at + 1 .. r.at + k THEN r.data[b - r.at] ELSE blocks[b] ]

\* The moment at which request r takes effect
Effect(i, r) ==
    \/ /\ r.op = "read" /\ InRange(r)
       /\ call' = [ call EXCEPT ![i] =
                      Performed(r, "ok", SubSeq(blocks, r.at + 1, r.at + r.n)) ]
       /\ UNCHANGED blocks
    \/ /\ r.op = "write" /\ InRange(r)
       /\ blocks' = WithBlocks(r, r.n)
       /\ call' = [ call EXCEPT ![i] = Performed(r, "ok", <<>>) ]
    \/ /\ r.op \in {"read", "write"} /\ ~InRange(r)
       /\ call' = [ call EXCEPT ![i] = Performed(r, "range", <<>>) ]
       /\ UNCHANGED blocks
    \/ /\ r.op \notin {"read", "write"}
       /\ call' = [ call EXCEPT ![i] = Performed(r, r.op, <<>>) ]
       /\ UNCHANGED blocks

\* The medium fails: a read yields nothing, a write stops part of the way.
MediumFails(i, r) ==
    /\ InRange(r)
    /\ \/ r.op = "read" /\ UNCHANGED blocks
       \/ r.op = "write" /\ \E k \in 0 .. r.n - 1 : blocks' = WithBlocks(r, k)
    /\ call' = [ call EXCEPT ![i] = Performed(r, "medium", <<>>) ]

Perform(i) ==
    /\ call[i].st = "asked"
    /\ Effect(i, call[i].req) \/ MediumFails(i, call[i].req)
    /\ UNCHANGED << answer, answered >>

Answer(i) ==
    /\ call[i].st = "performed"
    /\ answer' = [ answer EXCEPT ![i] =
                     [ result |-> call[i].result, data |-> call[i].data ] ]
    /\ call' = [ call EXCEPT ![i] = Idle ]
    /\ answered' = answered + 1
    /\ UNCHANGED blocks

Reset ==
    /\ call' = [ i \in Ids |-> Idle ]
    /\ UNCHANGED << blocks, answer, answered >>

Next == Reset \/ \E i \in Ids : Ask(i) \/ Perform(i) \/ Answer(i)

Spec == Init /\ [][Next]_vars
=============================================================================
