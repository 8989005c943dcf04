------------------------------ MODULE ByteStore ------------------------------
(***************************************************************************)
(* What a client may rely on while a file system is mounted: a file is a   *)
(* sequence of bytes, a descriptor a position in one, and each call takes  *)
(* effect at once.  FileData implements it.                                *)
(*                                                                         *)
(* A byte that no call has stored is 0, or a Hole as long as no block has  *)
(* been allocated for it.  A hole reads as 0 or ends the read, and a call  *)
(* that follows the file past it may turn it into 0.                       *)
(*                                                                         *)
(* Spec is the store on a host that does all that the library asks of it.  *)
(* FailingSpec is what is left of it when the host may fail to read and    *)
(* write blocks, of which no call tells the client: bytes that count as    *)
(* written or read may be anything, and so may the rest of their blocks.   *)
(***************************************************************************)
EXTENDS Integers, Sequences

CONSTANTS
  Names, Fds, Bytes, Hole,
  BLOCK_SIZE,         (* the unit that a failing host may spoil             *)
  Buffers, Counts,    (* what clients write, and how much they read         *)
  MaxSize,            (* bound: no client seeks beyond it                   *)
  Closed              (* the position of a descriptor that is not open      *)

VARIABLES
  content,            (* of every file that exists                          *)
  desc,               (* descriptor -> name and offset, or Closed           *)
  buf                 (* the buffer the client passed to the last call      *)

vars == <<content, desc, buf>>

Files == DOMAIN content

OpenFds(name) == {fd \in Fds : desc[fd] # Closed /\ desc[fd].name = name}

Init ==
  /\ content = <<>>
  /\ desc = [fd \in Fds |-> Closed]
  /\ buf = <<>>

(* Every file but name, and the set of files, stay as they are.            *)
OthersUnchanged(name) ==
  /\ Files' = Files
  /\ \A m \in Files \ {name} : content'[m] = content[m]

(* A byte stays, and a hole may be filled.                                 *)
KeptAt(s, t, k) == t[k] = s[k] \/ (s[k] = Hole /\ t[k] = 0)

HoleBefore(s, offset) == \E j \in 1..offset : s[j] = Hole

Create(name) ==
  /\ name \notin Files
  /\ content' = [m \in Files \union {name} |-> IF m = name THEN <<>> ELSE content[m]]
  /\ UNCHANGED desc

Delete(name) ==
  /\ name \in Files /\ OpenFds(name) = {}
  /\ content' = [m \in Files \ {name} |-> content[m]]
  /\ UNCHANGED desc

Open(name, fd) ==
  /\ name \in Files /\ desc[fd] = Closed
  /\ desc' = [desc EXCEPT ![fd] = [name |-> name, offset |-> 0]]
  /\ UNCHANGED content

Close(fd) ==
  /\ desc[fd] # Closed
  /\ desc' = [desc EXCEPT ![fd] = Closed]
  /\ UNCHANGED content

(* A seek to the end makes the file one byte longer: a hole, or a byte     *)
(* behind the end in its last block, not 0 where a failing host (fails)    *)
(* has spoilt it.                                                          *)
Seek(fd, offset, fails) ==
  /\ desc[fd] # Closed
  /\ desc' = [desc EXCEPT ![fd].offset = offset]
  /\ \/ offset < Len(content[desc[fd].name]) /\ UNCHANGED content
     \/ /\ offset = Len(content[desc[fd].name])
        /\ \E byte \in {Hole} \union (IF fails THEN Bytes ELSE {0}) :
             content' = [content EXCEPT ![desc[fd].name] = Append(@, byte)]

(* The first n bytes of w have replaced those of s from offset on.  On a   *)
(* full disk, behind a hole, they may be lost and leave a hole.            *)
Stored(s, t, offset, w, n) ==
  \A k \in 1..Len(t) :
    IF k \in (offset + 1)..(offset + n)
    THEN \/ t[k] = w[k - offset]
         \/ t[k] = Hole /\ HoleBefore(s, offset)
    ELSE KeptAt(s, t, k)

BlockOf(k) == (k - 1) \div BLOCK_SIZE

(* All a failing host can do: the blocks that those bytes lie in hold      *)
(* anything.                                                               *)
Spoiled(s, t, offset, n) ==
  \A k \in 1..Len(t) :
    (\A j \in (offset + 1)..(offset + n) : BlockOf(j) # BlockOf(k)) => KeptAt(s, t, k)

MaxOf(a, b) == IF a > b THEN a ELSE b
MinOf(a, b) == IF a < b THEN a ELSE b

(* The call writes n of the bytes of w, fewer than all on a full disk.     *)
Write(fd, w, n, fails) ==
  /\ desc[fd] # Closed
  /\ buf' = w
  /\ LET name   == desc[fd].name
         offset == desc[fd].offset
         s      == content[name]
         t      == content'[name]
     IN  /\ OthersUnchanged(name)
         /\ Len(t) = MaxOf(Len(s), offset + n)
         /\ \/ Stored(s, t, offset, w, n)
            \/ fails /\ Spoiled(s, t, offset, n)
         /\ desc' = [desc EXCEPT ![fd].offset = offset + n]

(* The call delivers the bytes at the offset, up to the end of the file or *)
(* to a hole; a failing host may deliver anything instead.  On a full disk *)
(* a hole behind another one delivers what writes have lost.               *)
Read(fd, count, fails) ==
  /\ desc[fd] # Closed
  /\ LET name   == desc[fd].name
         offset == desc[fd].offset
         s      == content[name]
         got    == Len(buf')
     IN  /\ OthersUnchanged(name)
         /\ Len(content'[name]) = Len(s)
         /\ \A k \in 1..Len(s) : KeptAt(s, content'[name], k)
         /\ \/ got = MinOf(count, Len(s) - offset)
            \/ got < MinOf(count, Len(s) - offset) /\ s[offset + got + 1] = Hole
         /\ \/ fails
            \/ \A k \in 1..got :
                 \/ s[offset + k] = buf'[k]
                 \/ s[offset + k] = Hole /\ (buf'[k] = 0 \/ HoleBefore(s, offset))
         /\ desc' = [desc EXCEPT ![fd].offset = offset + got]

(* The calls that move no bytes, and the client preparing its buffer.      *)
Other(fails) ==
  \/ UNCHANGED <<content, desc>>
  \/ \E name \in Names : Create(name) \/ Delete(name)
  \/ \E name \in Names, fd \in Fds : Open(name, fd)
  \/ \E fd \in Fds : Close(fd)
  \/ \E fd \in Fds, offset \in 0..MaxSize : Seek(fd, offset, fails)

Call(fails) ==
  \/ buf' = <<>> /\ Other(fails)
  \/ \E fd \in Fds, w \in Buffers : \E n \in 0..Len(w) : Write(fd, w, n, fails)
  \/ \E fd \in Fds, count \in Counts : Read(fd, count, fails)

Next == Call(FALSE)

Spec == Init /\ [][Next]_vars

FailingNext == Call(TRUE)

FailingSpec == Init /\ [][FailingNext]_vars
=============================================================================
