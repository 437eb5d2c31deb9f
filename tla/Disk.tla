-------------------------------- MODULE Disk --------------------------------
(***************************************************************************)
(* What the drives of DGC-32 promise a program (src/doc/design/devices/    *)
(* dardrive.md): a file is a row of pieces, zero until written; one        *)
(* transfer at a time copies a sector, piece by piece, between a file and  *)
(* memory; a transfer that reports success has copied all of it, from or   *)
(* to consecutive places; nothing but a transfer changes what a drive      *)
(* holds.                                                                  *)
(*                                                                         *)
(* Storage implements this specification.                                  *)
(***************************************************************************)
EXTENDS Integers

CONSTANTS
    Files,
    MaxPieces,    \* bound: pieces a file is looked at
    MemorySize,   \* pieces of general memory
    Values        \* contents of a piece

NoTransfer == [running |-> FALSE]
NoPiece == [place |-> -1]

VARIABLES
    content,   \* per file, its pieces
    transfer,  \* the transfer that runs
    copied,    \* the piece it copied last: its place in memory and its value
    outcome    \* what the transfer that just ended reports

vars == <<content, transfer, copied, outcome>>

Init ==
    /\ content \in [Files -> [0 .. MaxPieces - 1 -> Values]]
    /\ transfer = NoTransfer /\ copied = NoPiece /\ outcome = "none"

(* A transfer of count pieces from the first one of a sector. *)
Begin(f, isRead, first, count, address) ==
    /\ transfer = NoTransfer /\ outcome = "none"
    /\ transfer' = [running |-> TRUE, file |-> f, isRead |-> isRead, first |-> first,
                    count |-> count, address |-> address, done |-> 0]
    /\ UNCHANGED <<content, copied, outcome>>

(* A read delivers what the file holds; a write stores what memory holds,  *)
(* which is the program's to choose.                                       *)
Copy ==
    /\ transfer.running /\ transfer.done < transfer.count
    /\ transfer.address + transfer.done < MemorySize
    /\ LET piece == transfer.first + transfer.done
       IN  /\ \/ transfer.isRead /\ UNCHANGED content
              \/ ~ transfer.isRead
                 /\ \E v \in Values :
                       content' = [content EXCEPT ![transfer.file][piece] = v]
           /\ copied' = [place |-> transfer.address + transfer.done,
                         value |-> content'[transfer.file][piece]]
    /\ transfer' = [transfer EXCEPT !.done = @ + 1]
    /\ UNCHANGED outcome

Succeed ==
    /\ transfer.running /\ transfer.done = transfer.count
    /\ transfer' = NoTransfer /\ copied' = NoPiece /\ outcome' = "success"
    /\ UNCHANGED content

(* A transfer fails on the way, or is refused before it begins. *)
Fail ==
    /\ transfer.running => transfer.done < transfer.count
    /\ transfer' = NoTransfer /\ copied' = NoPiece /\ outcome' = "failure"
    /\ UNCHANGED content

Acknowledge ==
    /\ outcome # "none" /\ outcome' = "none"
    /\ UNCHANGED <<content, transfer, copied>>

Next ==
    \/ \E f \in Files, isRead \in BOOLEAN, first \in 0 .. MaxPieces - 1,
          count \in 1 .. MaxPieces, address \in 0 .. MemorySize :
             Begin(f, isRead, first, count, address)
    \/ Copy \/ Succeed \/ Fail \/ Acknowledge

Spec == Init /\ [][Next]_vars
=============================================================================
