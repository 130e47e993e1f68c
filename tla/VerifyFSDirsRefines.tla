------------------------- MODULE VerifyFSDirsRefines ------------------------
(***************************************************************************)
(* VerifyFSDirs implements DirectoryAccess.  A handle is open from the     *)
(* moment fuseOpendir returns 0 to the end of its fuseReleasedir, and its  *)
(* listing runs from the find of fuseReaddir to its return.                *)
(***************************************************************************)
EXTENDS VerifyFSDirs

Listers(h) ==
  {w \in Worker : frame[w].pc \in {"found", "rewind", "list"} /\ frame[w].h = h}

dirOf == [h \in DirHandle |-> IF InUse(h) THEN dirPath[h] ELSE NoDir]

Listings(h) ==
  {[stayed |-> frame[w].stayed, ever |-> frame[w].ever] : w \in Listers(h)}

listingOf == [h \in DirHandle |-> Listings(h)]

Shown(r) ==
  [op |-> r.op, result |-> r.result, listed |-> r.listed, cut |-> r.cut]

replyOf == [h \in DirHandle |-> Shown(reply[h])]

Access == INSTANCE DirectoryAccess WITH
  dir <- dirOf, listing <- listingOf, reply <- replyOf

(***************************************************************************)
(* With one thread every step of it, of the clients and of the other       *)
(* processes is a step of DirectoryAccess or changes nothing a client can  *)
(* see: no open directory is refused a listing, and a listing is of the    *)
(* directory its handle was opened on, sound and complete.                 *)
(***************************************************************************)
ImplementsDirectories == Access!Spec

(***************************************************************************)
(* With several threads the same holds step by step until an opendir gets  *)
(* a number whose node another thread's releasedir has still to erase.     *)
(***************************************************************************)
ImplementsUntilReused ==
  Access!Init /\ [][Access!Next \/ reused']_(Access!vars)
=============================================================================
