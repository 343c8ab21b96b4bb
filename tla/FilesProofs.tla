----------------------------- MODULE FilesProofs -----------------------------
(***************************************************************************)
(* Proofs about the functions on files and directories: open and remove,    *)
(* whatever another process of MiNT does between two of their calls, and    *)
(* what is told of a file and of the current directory.                     *)
(***************************************************************************)
EXTENDS Files, Sequences, TLAPS

(***************************************************************************)
(* open, remove and unlink                                                  *)
(***************************************************************************)

Kinds == {"none", "file", "dir", "full"}
Before == {"stat", "noent", "open", "recreate", "reopen", "opencreate", "create",
           "Ddelete", "Fdelete"}
Within == {"truncate", "opened", "close"}
HandlesUpTo(n) == [id : 1 .. n, access : Opn!Modes, pos : {"start", "end"}]

\* The variables of open; a file's number is not above the last.
NamesTypes ==
    /\ mint \in BOOLEAN /\ last \in 1 .. MaxFiles
    /\ name.kind \in Kinds /\ (name.kind # "none" => name.id \in 1 .. last)
    /\ iomode.call \in {"open", "remove", "unlink"} /\ iomode.access \in Opn!Modes
    /\ pc \in Before \cup Within \cup {"done"}
    /\ made \subseteq 1 .. last /\ emptied \subseteq 1 .. last
    /\ handles \subseteq HandlesUpTo(last)

\* open has a handle between the call that gives it and the one that closes it.
OneHandle ==
    /\ \A g, h \in handles : g = h
    /\ pc \in Before => handles = {}
    /\ pc \in Within => handles # {}
    /\ pc = "done" => (result = "handle" <=> handles # {})
    /\ pc # "done" => result = "none"

\* What open knows at each of its calls.  On TOS nothing happens to the file between two
\* calls, so it is still what the last call has found or made.
WayThrough ==
    /\ pc \in {"open", "truncate", "recreate", "close", "reopen"} =>
         ~(Opn!Has("CREAT") /\ Opn!Has("EXCL"))
    /\ pc = "create" => ~mint
    /\ pc \in {"opencreate", "create"} => Opn!Has("CREAT")
    /\ ~mint /\ pc \in {"noent", "opencreate", "create"} => name.kind # "file"
    /\ ~mint /\ pc \in {"close", "reopen"} => name.kind = "file" /\ name.id \in emptied

\* What holds of the handle before it is returned.
HandleAsAsked ==
    /\ pc = "truncate" => \A h \in handles : h.access = iomode.access
    /\ pc = "opened" \/ result = "handle" =>
         \A h \in handles :
            /\ Opn!Has("CREAT") /\ Opn!Has("EXCL") => h.id \in made
            /\ Opn!Has("TRUNC") /\ iomode.access # "RDONLY" => h.id \in made \cup emptied
            /\ h.id \in made \/ h.access = iomode.access

\* remove tries the directory first, and the file when there is none.
Removal ==
    /\ result = "removed" => removed # {}
    /\ result # "removed" => removed = {}
    /\ \A q, r \in removed : q = r
    /\ \A r \in removed : r.kind # "full"
    /\ iomode.call = "remove" /\ mint \notin Shared =>
         /\ pc = "Fdelete" => name.kind \in {"none", "file"}
         /\ pc = "done" => name.kind \in {"none", "full"}
    /\ iomode.call = "remove" => pc \in {"Ddelete", "Fdelete", "done"}

NamesInv == NamesTypes /\ OneHandle /\ WayThrough /\ HandleAsAsked /\ Removal

LEMMA NamesStart ==
    ASSUME Opn!OpenAssumption, Opn!Init
    PROVE  NamesInv
<1>1. NamesTypes
  <2>1. name.kind \in Kinds /\ (name.kind # "none" => name.id \in 1 .. last)
    BY DEF Opn!Init, Opn!None, Kinds
  <2>2. /\ iomode.call \in {"open", "remove", "unlink"} /\ iomode.access \in Opn!Modes
    BY DEF Opn!Init, Opn!Modes
  <2>3. pc \in Before
    BY <2>2 DEF Opn!Init, Before
  <2> QED BY <2>1, <2>2, <2>3 DEF NamesTypes, Opn!OpenAssumption, Opn!Init
<1>2. OneHandle
  BY <1>1 DEF NamesTypes, OneHandle, Opn!Init, Before, Within
<1>3. WayThrough
  BY DEF WayThrough, Opn!Init, Opn!Has
<1>4. HandleAsAsked
  BY DEF HandleAsAsked, Opn!Init, Opn!Has
<1>5. Removal
  BY <1>1 DEF NamesTypes, Removal, Opn!Init
<1> QED BY <1>1, <1>2, <1>3, <1>4, <1>5 DEF NamesInv

\* What Fopen gives: a new file, the file that is there, or nothing.
LEMMA FopenGives ==
    ASSUME Opn!OpenAssumption, NamesTypes, handles = {}, NEW bits, NEW code, Opn!Fopen(bits, code)
    PROVE  /\ last' \in 1 .. MaxFiles /\ last <= last'
           /\ name'.kind \in Kinds /\ (name'.kind # "none" => name'.id \in 1 .. last')
           /\ made' \subseteq 1 .. last' /\ emptied' \subseteq 1 .. last'
           /\ handles' \subseteq HandlesUpTo(last')
           /\ \A g, h \in handles' : g = h
           /\ handles' # {} <=> code \in {"made", "opened"}
           /\ code \in {"made", "opened"} => \A h \in handles' : h.access = iomode.access
           /\ code = "made" => mint /\ "CREAT" \in bits /\ \A h \in handles' : h.id \in made'
           /\ code = "opened" =>
                /\ name.kind = "file" /\ \A h \in handles' : h.id = name.id
                /\ ~(mint /\ "CREAT" \in bits /\ "EXCL" \in bits)
                /\ mint /\ "TRUNC" \in bits /\ iomode.access # "RDONLY" => name.id \in emptied'
           /\ code # "made" => name' = name /\ last' = last /\ made' = made
           /\ emptied \subseteq emptied'
<1> USE DEF Opn!OpenAssumption, NamesTypes, Opn!Modes, Kinds, HandlesUpTo, Opn!Handle, Opn!IsDir
<1>1. CASE code = "made"
  <2>1. mint /\ "CREAT" \in bits /\ last < MaxFiles
    BY <1>1 DEF Opn!Fopen, Opn!FopenCode
  <2>2. /\ name' = [kind |-> "file", id |-> last + 1] /\ last' = last + 1
        /\ made' = made \cup {last + 1} /\ handles' = {Opn!Handle(last + 1)} /\ emptied' = emptied
    BY <1>1 DEF Opn!Fopen
  <2> QED BY <1>1, <2>1, <2>2
<1>2. CASE code = "opened"
  <2>1. /\ name.kind = "file" /\ ~(mint /\ "CREAT" \in bits /\ "EXCL" \in bits)
    BY <1>2 DEF Opn!Fopen, Opn!FopenCode
  <2>2. /\ name' = name /\ last' = last /\ made' = made
        /\ handles' = {Opn!Handle(name.id)}
        /\ emptied' = IF mint /\ "TRUNC" \in bits /\ iomode.access # "RDONLY"
                      THEN emptied \cup {name.id} ELSE emptied
    BY <1>2 DEF Opn!Fopen
  <2> QED BY <1>2, <2>1, <2>2
<1>3. CASE code \notin {"made", "opened"}
  <2>1. UNCHANGED <<name, last, made, emptied, handles>>
    BY <1>3 DEF Opn!Fopen
  <2> QED BY <1>3, <2>1
<1> QED BY <1>1, <1>2, <1>3

\* Fcreate empties the file that is there, or makes one.
LEMMA FcreateGives ==
    ASSUME Opn!OpenAssumption, NamesTypes, handles = {}, NEW code, Opn!Fcreate(code)
    PROVE  /\ last' \in 1 .. MaxFiles /\ last <= last'
           /\ name'.kind \in Kinds /\ (name'.kind # "none" => name'.id \in 1 .. last')
           /\ made' \subseteq 1 .. last' /\ emptied' \subseteq 1 .. last'
           /\ handles' \subseteq HandlesUpTo(last')
           /\ \A g, h \in handles' : g = h
           /\ handles' # {} <=> code = "made"
           /\ code = "made" =>
                /\ name'.kind = "file" /\ name'.id \in emptied'
                /\ \A h \in handles' : h.id = name'.id
                /\ name.kind # "file" => name'.id \in made'
<1> USE DEF Opn!OpenAssumption, NamesTypes, Opn!Modes, Kinds, HandlesUpTo
<1>1. CASE code = "made"
  <2> DEFINE id == IF name.kind = "file" THEN name.id ELSE last + 1
  <2>1. /\ id <= MaxFiles /\ name' = [kind |-> "file", id |-> id]
        /\ last' = IF id > last THEN id ELSE last
        /\ made' = IF name.kind = "file" THEN made ELSE made \cup {id}
        /\ emptied' = emptied \cup {id}
        /\ handles' = {[id |-> id, access |-> "RDWR", pos |-> "start"]}
    BY <1>1 DEF Opn!Fcreate
  <2>2. id \in 1 .. MaxFiles /\ last' \in 1 .. MaxFiles /\ id <= last' /\ last <= last'
    BY <2>1
  <2>3. name.kind # "file" => id \in made'
    BY <2>1
  <2>4. made' \subseteq 1 .. last'
    BY <2>1, <2>2
  <2> HIDE DEF id
  <2> QED BY <1>1, <2>1, <2>2, <2>3, <2>4
<1>2. CASE code # "made"
  <2>1. UNCHANGED <<name, last, made, emptied, handles>>
    BY <1>2 DEF Opn!Fcreate
  <2> QED BY <1>2, <2>1
<1> QED BY <1>1, <1>2

NamesSteps ==
    Opn!OpenAssumption /\ FALSE \notin Shared /\ NamesInv /\ UNCHANGED mint

LEMMA StatKeeps ==
    ASSUME NamesSteps, Opn!Stat, UNCHANGED removed PROVE NamesInv'
<1> USE DEF NamesSteps, NamesInv, Opn!Stat, Opn!Return, Before, Within
<1>1. NamesTypes'
  BY DEF NamesTypes
<1>2. OneHandle'
  BY DEF OneHandle
<1>3. WayThrough'
  BY DEF WayThrough, Opn!Has
<1>4. HandleAsAsked'
  BY DEF HandleAsAsked, Opn!Has, OneHandle
<1>5. Removal'
  BY DEF Removal, OneHandle
<1> QED BY <1>1, <1>2, <1>3, <1>4, <1>5

LEMMA OpenFileKeeps ==
    ASSUME NamesSteps, Opn!OpenFile, UNCHANGED removed PROVE NamesInv'
<1> USE DEF NamesSteps, NamesInv, Opn!Return, Before, Within
<1>1. pc = "open" /\ UNCHANGED iomode /\ handles = {} /\ ~(Opn!Has("CREAT") /\ Opn!Has("EXCL"))
  BY DEF Opn!OpenFile, OneHandle, WayThrough
<1>2. PICK code \in {"opened", "ENOENT", "EISDIR", "EEXIST", "EMFILE"} :
         /\ Opn!Fopen(iomode.flags \ {"CREAT"}, code)
         /\ \/ code = "ENOENT" /\ pc' = "noent" /\ UNCHANGED result
            \/ /\ code = "opened"
               /\ pc' = IF Opn!Has("TRUNC") THEN "truncate" ELSE "opened"
               /\ UNCHANGED result
            \/ code \notin {"ENOENT", "opened"} /\ Opn!Return(code)
  BY DEF Opn!OpenFile, Opn!RealMode
<1> DEFINE bits == iomode.flags \ {"CREAT"}
<1>3. Opn!Fopen(bits, code)
  BY <1>2
<1>4. code = "ENOENT" => mint \/ name.kind # "file"
  BY <1>2 DEF Opn!Fopen, Opn!FopenCode, Opn!IsDir
<1> HIDE DEF bits
<1>5. NamesTypes'
  BY <1>1, <1>2, <1>3, FopenGives DEF NamesTypes
<1>6. OneHandle'
  BY <1>1, <1>2, <1>3, FopenGives DEF OneHandle
<1>7. WayThrough'
  BY <1>1, <1>2, <1>3, <1>4, FopenGives DEF WayThrough, Opn!Has
<1>8. HandleAsAsked'
  BY <1>1, <1>2, <1>3, FopenGives DEF HandleAsAsked, Opn!Has, OneHandle
<1>9. Removal'
  BY <1>1, <1>2, <1>3, FopenGives DEF Removal, OneHandle
<1> QED BY <1>5, <1>6, <1>7, <1>8, <1>9

LEMMA TruncateKeeps ==
    ASSUME NamesSteps, Opn!Conflict \/ Opn!Ftruncate, UNCHANGED removed PROVE NamesInv'
<1> USE DEF NamesSteps, NamesInv, Opn!Return, Before, Within
<1>1. /\ pc = "truncate" /\ UNCHANGED <<name, last, iomode, made>>
      /\ handles # {} /\ result = "none" /\ \A g, h \in handles : g = h
      /\ ~(Opn!Has("CREAT") /\ Opn!Has("EXCL"))
      /\ \A h \in handles : h.access = iomode.access
  BY DEF Opn!Conflict, Opn!Ftruncate, OneHandle, WayThrough, HandleAsAsked
<1>2. \/ handles' = {} /\ result' = "EACCES" /\ pc' = "done" /\ UNCHANGED emptied
      \/ /\ mint /\ handles' = handles /\ pc' = "opened" /\ result' = "none"
         /\ emptied' = emptied \cup {h.id : h \in handles}
      \/ handles' = {} /\ pc' = "recreate" /\ result' = "none" /\ UNCHANGED emptied
  BY <1>1 DEF Opn!Conflict, Opn!Ftruncate
<1>3. NamesTypes'
  BY <1>1, <1>2 DEF NamesTypes, HandlesUpTo
<1>4. OneHandle'
  BY <1>1, <1>2 DEF OneHandle
<1>5. WayThrough'
  BY <1>1, <1>2 DEF WayThrough, Opn!Has
<1>6. HandleAsAsked'
  BY <1>1, <1>2 DEF HandleAsAsked, Opn!Has
<1>7. Removal'
  BY <1>1, <1>2 DEF Removal
<1> QED BY <1>3, <1>4, <1>5, <1>6, <1>7

LEMMA RecreateKeeps ==
    ASSUME NamesSteps, Opn!Recreate, UNCHANGED removed PROVE NamesInv'
<1> USE DEF NamesSteps, NamesInv, Opn!Return, Before, Within
<1>1. /\ pc = "recreate" /\ UNCHANGED iomode /\ handles = {} /\ result = "none"
      /\ ~(Opn!Has("CREAT") /\ Opn!Has("EXCL"))
  BY DEF Opn!Recreate, OneHandle, WayThrough
<1>2. PICK code \in {"made", "EACCES", "EMFILE"} :
         /\ Opn!Fcreate(code)
         /\ IF code = "made" THEN pc' = "close" /\ UNCHANGED result ELSE Opn!Return(code)
  BY DEF Opn!Recreate
<1>3. NamesTypes'
  BY <1>1, <1>2, FcreateGives DEF NamesTypes
<1>4. OneHandle'
  BY <1>1, <1>2, FcreateGives DEF OneHandle
<1>5. WayThrough'
  BY <1>1, <1>2, FcreateGives DEF WayThrough, Opn!Has
<1>6. HandleAsAsked'
  BY <1>1, <1>2 DEF HandleAsAsked
<1>7. Removal'
  BY <1>1, <1>2 DEF Removal
<1> QED BY <1>3, <1>4, <1>5, <1>6, <1>7

LEMMA CloseRecreatedKeeps ==
    ASSUME NamesSteps, Opn!CloseRecreated, UNCHANGED removed PROVE NamesInv'
<1> USE DEF NamesSteps, NamesInv, Opn!CloseRecreated, Before, Within
<1>1. NamesTypes'
  BY DEF NamesTypes
<1>2. OneHandle'
  BY DEF OneHandle
<1>3. WayThrough'
  BY DEF WayThrough, Opn!Has
<1>4. HandleAsAsked'
  BY DEF HandleAsAsked, OneHandle
<1>5. Removal'
  BY DEF Removal
<1> QED BY <1>1, <1>2, <1>3, <1>4, <1>5

\* On TOS Fopen only opens, and it is the file that was emptied; MiNT's empties it, or makes one.
LEMMA ReopenKeeps ==
    ASSUME NamesSteps, Opn!Reopen, UNCHANGED removed PROVE NamesInv'
<1> USE DEF NamesSteps, NamesInv, Opn!Return, Before, Within
<1>1. /\ pc = "reopen" /\ UNCHANGED iomode /\ handles = {} /\ result = "none"
      /\ ~(Opn!Has("CREAT") /\ Opn!Has("EXCL"))
      /\ ~mint => name.kind = "file" /\ name.id \in emptied
  BY DEF Opn!Reopen, OneHandle, WayThrough
<1>2. PICK code \in {"opened", "made", "ENOENT", "EISDIR", "EEXIST", "EMFILE"} :
         /\ Opn!Fopen(iomode.flags, code)
         /\ IF code \in {"opened", "made"} THEN pc' = "opened" /\ UNCHANGED result
            ELSE Opn!Return(code)
  BY DEF Opn!Reopen, Opn!RealMode
<1>3. NamesTypes'
  BY <1>1, <1>2, FopenGives DEF NamesTypes
<1>4. OneHandle'
  BY <1>1, <1>2, FopenGives DEF OneHandle
<1>5. WayThrough'
  BY <1>1, <1>2, FopenGives DEF WayThrough, Opn!Has
<1>6. HandleAsAsked'
  BY <1>1, <1>2, FopenGives DEF HandleAsAsked, Opn!Has
<1>7. Removal'
  BY <1>1, <1>2 DEF Removal
<1> QED BY <1>3, <1>4, <1>5, <1>6, <1>7

LEMMA NoEntryKeeps ==
    ASSUME NamesSteps, Opn!NoEntry, UNCHANGED removed PROVE NamesInv'
<1> USE DEF NamesSteps, NamesInv, Opn!NoEntry, Opn!Return, Before, Within
<1>1. NamesTypes'
  BY DEF NamesTypes
<1>2. OneHandle'
  BY DEF OneHandle
<1>3. WayThrough'
  BY DEF WayThrough, Opn!Has
<1>4. HandleAsAsked'
  BY DEF HandleAsAsked, Opn!Has, OneHandle
<1>5. Removal'
  BY DEF Removal, OneHandle
<1> QED BY <1>1, <1>2, <1>3, <1>4, <1>5

\* MiNT makes the file, and with O_EXCL opens no other; TOS finds none, for open has
\* found none.
LEMMA OpenCreateKeeps ==
    ASSUME NamesSteps, Opn!OpenCreate, UNCHANGED removed PROVE NamesInv'
<1> USE DEF NamesSteps, NamesInv, Opn!Return, Before, Within
<1>1. /\ pc = "opencreate" /\ UNCHANGED iomode /\ handles = {} /\ result = "none"
      /\ Opn!Has("CREAT") /\ (~mint => name.kind # "file")
  BY DEF Opn!OpenCreate, OneHandle, WayThrough
<1>2. PICK code \in {"opened", "made", "ENOENT", "EISDIR", "EEXIST", "EMFILE"} :
         /\ Opn!Fopen(iomode.flags, code)
         /\ \/ code = "ENOENT" /\ pc' = "create" /\ UNCHANGED result
            \/ code \in {"opened", "made"} /\ pc' = "opened" /\ UNCHANGED result
            \/ code \notin {"ENOENT", "opened", "made"} /\ Opn!Return(code)
  BY DEF Opn!OpenCreate, Opn!RealMode
<1>3. code = "ENOENT" => ~mint
  BY <1>1, <1>2 DEF Opn!Fopen, Opn!FopenCode, Opn!IsDir, Opn!Has
<1>4. NamesTypes'
  BY <1>1, <1>2, FopenGives DEF NamesTypes
<1>5. OneHandle'
  BY <1>1, <1>2, FopenGives DEF OneHandle
<1>6. WayThrough'
  BY <1>1, <1>2, <1>3, FopenGives DEF WayThrough, Opn!Has
<1>7. HandleAsAsked'
  BY <1>1, <1>2, FopenGives DEF HandleAsAsked, Opn!Has
<1>8. Removal'
  BY <1>1, <1>2 DEF Removal
<1> QED BY <1>4, <1>5, <1>6, <1>7, <1>8

LEMMA CreateKeeps ==
    ASSUME NamesSteps, Opn!Create, UNCHANGED removed PROVE NamesInv'
<1> USE DEF NamesSteps, NamesInv, Opn!Return, Before, Within
<1>1. /\ pc = "create" /\ UNCHANGED iomode /\ handles = {} /\ result = "none"
      /\ name.kind # "file" /\ ~mint
  BY DEF Opn!Create, OneHandle, WayThrough, NamesTypes
<1>2. PICK code \in {"made", "EACCES", "EMFILE"} :
         /\ Opn!Fcreate(code)
         /\ IF code = "made" THEN pc' = "opened" /\ UNCHANGED result ELSE Opn!Return(code)
  BY DEF Opn!Create
<1>3. NamesTypes'
  BY <1>1, <1>2, FcreateGives DEF NamesTypes
<1>4. OneHandle'
  BY <1>1, <1>2, FcreateGives DEF OneHandle
<1>5. WayThrough'
  BY <1>1, <1>2, FcreateGives DEF WayThrough, Opn!Has
<1>6. HandleAsAsked'
  BY <1>1, <1>2, FcreateGives DEF HandleAsAsked, Opn!Has
<1>7. Removal'
  BY <1>1, <1>2 DEF Removal
<1> QED BY <1>3, <1>4, <1>5, <1>6, <1>7

LEMMA OpenedKeeps ==
    ASSUME NamesSteps, Opn!Opened, UNCHANGED removed PROVE NamesInv'
<1> USE DEF NamesSteps, NamesInv, Opn!Return, Before, Within
<1>1. /\ pc = "opened" /\ pc' = "done" /\ result = "none" /\ result' = "handle"
      /\ handles # {} /\ \A g, h \in handles : g = h
      /\ UNCHANGED <<name, last, iomode, made, emptied>>
  BY DEF Opn!Opened, OneHandle
<1>2. /\ handles' # {} /\ \A g, h \in handles' : g = h
      /\ handles' \subseteq HandlesUpTo(last)
      /\ \A h \in handles' : \E g \in handles : h.id = g.id /\ h.access = g.access
  <2>1. CASE Opn!Has("APPEND")
    <3>1. handles' = {[h EXCEPT !.pos = "end"] : h \in handles}
      BY <2>1 DEF Opn!Opened
    <3>2. \A h \in handles : [h EXCEPT !.pos = "end"] \in HandlesUpTo(last)
                          /\ [h EXCEPT !.pos = "end"].id = h.id
                          /\ [h EXCEPT !.pos = "end"].access = h.access
      BY DEF NamesTypes, HandlesUpTo
    <3> QED BY <1>1, <3>1, <3>2
  <2>2. CASE ~Opn!Has("APPEND")
    BY <1>1, <2>2 DEF Opn!Opened, NamesTypes
  <2> QED BY <2>1, <2>2
<1>3. NamesTypes'
  BY <1>1, <1>2 DEF NamesTypes
<1>4. OneHandle'
  BY <1>1, <1>2 DEF OneHandle
<1>5. WayThrough'
  BY <1>1 DEF WayThrough
<1>6. HandleAsAsked'
  BY <1>1, <1>2 DEF HandleAsAsked, Opn!Has
<1>7. Removal'
  BY <1>1 DEF Removal
<1> QED BY <1>3, <1>4, <1>5, <1>6, <1>7

LEMMA DeletesKeep ==
    ASSUME NamesSteps, Opn!Ddelete \/ Opn!Fdelete PROVE NamesInv'
<1> USE DEF NamesSteps, NamesInv, Opn!Gone, Opn!Return, Opn!None, Kinds, Before, Within
<1>1. /\ pc \in {"Ddelete", "Fdelete"} /\ pc' \in {"Fdelete", "done"}
      /\ UNCHANGED <<last, iomode, handles, made, emptied>>
      /\ handles = {} /\ result = "none" /\ removed = {}
  BY DEF Opn!Ddelete, Opn!Fdelete, OneHandle, Removal
<1>2. /\ pc' = "done" \/ result' = "none"
      /\ result' # "handle"
      /\ \/ result' = "removed" /\ removed' = {name} /\ name' = Opn!None
            /\ name.kind \in {"file", "dir"}
         \/ result' # "removed" /\ removed' = {} /\ name' = name
  <2>1. CASE Opn!Ddelete
    BY <1>1, <2>1 DEF Opn!Ddelete, Opn!DdeleteCode, NamesTypes
  <2>2. CASE Opn!Fdelete
    BY <1>1, <2>2 DEF Opn!Fdelete, Opn!FdeleteCode, NamesTypes
  <2> QED BY <2>1, <2>2
<1>3. iomode.call = "remove" /\ mint \notin Shared =>
        /\ pc' = "Fdelete" => name'.kind \in {"none", "file"}
        /\ pc' = "done" => name'.kind \in {"none", "full"}
  <2>1. CASE Opn!Ddelete
    BY <1>1, <2>1 DEF Opn!Ddelete, Opn!DdeleteCode, NamesTypes
  <2>2. CASE Opn!Fdelete
    BY <1>1, <2>2 DEF Opn!Fdelete, Opn!FdeleteCode, NamesTypes, Removal
  <2> QED BY <2>1, <2>2
<1>4. pc' = "Fdelete" => result' = "none"
  BY <1>1 DEF Opn!Ddelete, Opn!Fdelete
<1>5. NamesTypes'
  BY <1>1, <1>2 DEF NamesTypes
<1>6. OneHandle'
  BY <1>1, <1>2, <1>4 DEF OneHandle
<1>7. WayThrough'
  BY <1>1 DEF WayThrough
<1>8. HandleAsAsked'
  BY <1>1, <1>2 DEF HandleAsAsked
<1>9. Removal'
  BY <1>1, <1>2, <1>3 DEF Removal
<1> QED BY <1>5, <1>6, <1>7, <1>8, <1>9

\* The other process, which only MiNT has.
LEMMA OthersKeep ==
    ASSUME NamesSteps, Opn!OtherCreates \/ Opn!OtherDeletes PROVE NamesInv'
<1> USE DEF NamesSteps, NamesInv
<1>1. /\ mint /\ mint' /\ mint \in Shared /\ pc # "done"
      /\ UNCHANGED <<iomode, pc, handles, made, emptied, removed, result>>
  BY DEF Opn!OtherCreates, Opn!OtherDeletes, NamesTypes
<1>2. /\ last' \in 1 .. MaxFiles /\ last <= last'
      /\ name'.kind \in Kinds /\ (name'.kind # "none" => name'.id \in 1 .. last')
  BY DEF Opn!OtherCreates, Opn!OtherDeletes, NamesTypes, Kinds, Opn!None, Opn!OpenAssumption
<1>3. NamesTypes'
  BY <1>1, <1>2 DEF NamesTypes, HandlesUpTo
<1>4. OneHandle'
  BY <1>1 DEF OneHandle
<1>5. WayThrough'
  BY <1>1 DEF WayThrough, Opn!Has
<1>6. HandleAsAsked'
  BY <1>1 DEF HandleAsAsked, Opn!Has
<1>7. Removal'
  BY <1>1 DEF Removal
<1> QED BY <1>3, <1>4, <1>5, <1>6, <1>7

LEMMA NamesKeep ==
    ASSUME NamesSteps, Opn!Call \/ Opn!OtherCreates \/ Opn!OtherDeletes PROVE NamesInv'
BY StatKeeps, OpenFileKeeps, TruncateKeeps, RecreateKeeps, CloseRecreatedKeeps, ReopenKeeps,
   NoEntryKeeps, OpenCreateKeeps, CreateKeeps, OpenedKeeps, DeletesKeep, OthersKeep DEF Opn!Call

LEMMA NamesEnough ==
    ASSUME NamesInv, MaxFiles \in Nat \ {0} PROVE Opn!HandlesInOrder /\ Opn!OpensAndRemoves
<1> USE DEF NamesInv
<1>1. Opn!TypeOK
  BY DEF OneHandle, Opn!TypeOK, NamesTypes, Kinds, HandlesUpTo
<1>2. Opn!NoHandleLeaked
  BY DEF Opn!NoHandleLeaked, OneHandle
<1>3. Opn!OpensAsAsked
  BY DEF Opn!OpensAsAsked, Opn!ExclusiveCreates, Opn!TruncationDone, Opn!AccessAsAsked,
     HandleAsAsked
<1>4. Opn!RemovesOne
  BY DEF Opn!RemovesOne, Removal
<1> QED BY <1>1, <1>2, <1>3, <1>4 DEF Opn!HandlesInOrder, Opn!OpensAndRemoves

\* Where only MiNT has another process, open, remove and unlink do what they are asked
\* for: whatever it does to the file between their calls and whichever of them fails, no
\* handle is lost, O_EXCL opens only what the call has made, O_TRUNC leaves nothing in
\* the file, and remove removes one thing at most.
THEOREM FilesOpenAndRemove ==
    ASSUME FALSE \notin Shared
    PROVE  FilesSpec => []OpensAndRemoves
<1> DEFINE Inv == used = "names" => NamesInv
<1>1. FilesInit => Inv
  BY NamesStart, FilesAssumption DEF FilesInit
<1>2. Inv /\ [FilesNext]_fileVars => Inv'
  <2>1. ASSUME Inv, NameStep PROVE Inv'
    <3>1. used = "names" /\ NamesSteps /\ (Opn!Call \/ Opn!OtherCreates \/ Opn!OtherDeletes)
      BY <2>1, FilesAssumption DEF NameStep, NamesSteps
    <3> QED BY <3>1, NamesKeep
  <2>2. ASSUME Inv, UNCHANGED used, used # "names" \/ UNCHANGED openVars PROVE Inv'
    BY <2>2 DEF openVars, NamesInv, NamesTypes, OneHandle, WayThrough, HandleAsAsked, Removal,
       Opn!Has
  <2> QED BY <2>1, <2>2 DEF FilesNext, DirStep, HandleStep, DriveStep, fileVars
<1>3. Inv => OpensAndRemoves
  BY NamesEnough, FilesAssumption DEF OpensAndRemoves, Opn!OpenAssumption
<1> QED BY <1>1, <1>2, <1>3, PTL DEF FilesSpec

-----------------------------------------------------------------------------
(***************************************************************************)
(* The current directories                                                  *)
(***************************************************************************)

\* The drive is one there is, its path a directory, and what getcwd has told was one.
DrivesInv ==
    /\ drive \in Mounted /\ path \in [Mounted -> Paths]
    /\ saved \in [drive : Mounted, path : Paths]
    /\ buffer.written <= buffer.size
    /\ returned => drive = saved.drive /\ (saved.path # <<>> => path[drive] = saved.path)

LEMMA DrivesStart ==
    ASSUME Cwd!DrivesAssumption, Cwd!DrivesInit PROVE DrivesInv
BY DEF DrivesInv, Cwd!DrivesAssumption, Cwd!DrivesInit, Cwd!Answer

LEMMA GetcwdKeeps ==
    ASSUME Cwd!DrivesAssumption, DrivesInv, NEW own \in BOOLEAN, NEW ok \in BOOLEAN,
           NEW size \in Sizes, Cwd!getcwd(own, size, ok)
    PROVE  DrivesInv'
<1> DEFINE place == [drive |-> drive, path |-> path[drive]]
           length == Cwd!Length(place)
<1>1. place \in [drive : Mounted, path : Paths] /\ length \in Nat /\ size \in Nat
  BY DEF DrivesInv, Cwd!DrivesAssumption, Cwd!Length
<1>2. /\ saved' = place \/ saved' = saved
      /\ drive' = drive /\ path' = path /\ returned' = FALSE
  BY DEF Cwd!getcwd
<1>3. \/ buffer' = Cwd!Answer("malloc", length + 1, length + 1)
      \/ buffer' = Cwd!Answer("NULL", 0, 0)
      \/ buffer' = Cwd!Answer("NULL", size, 0)
      \/ \E memory : \/ buffer' = Cwd!Answer(memory, size, 0)
                     \/ buffer' = Cwd!Answer(memory, size, length + 1) /\ size > length
  BY DEF Cwd!getcwd
<1>4. buffer'.written <= buffer'.size
  <2> HIDE DEF length
  <2> QED BY <1>1, <1>3 DEF Cwd!Answer
<1> HIDE DEF place
<1> QED BY <1>1, <1>2, <1>4 DEF DrivesInv

\* NameOf names a drive, so that chdir goes there; only the name of its root is taken
\* for where one is.
LEMMA GoBackKeeps ==
    ASSUME Cwd!DrivesAssumption, DrivesInv, Cwd!GoBack PROVE DrivesInv'
<1> DEFINE name0 == Cwd!NameOf(saved)
<1>1. /\ name0.drive = saved.drive /\ name0.path = saved.path
      /\ name0.abs = (saved.path # <<>>) /\ Cwd!Rest(name0) = name0
  BY DEF DrivesInv, Cwd!NameOf, Cwd!Whole, Cwd!Rest, Cwd!DrivesAssumption
<1>2. path[saved.drive] \o <<>> = path[saved.drive]
  BY DEF DrivesInv, Cwd!DrivesAssumption
<1>3. Cwd!Target(saved.drive, name0)
        = IF saved.path # <<>> THEN saved.path ELSE path[saved.drive]
  BY <1>1, <1>2 DEF Cwd!Target
<1>4. /\ drive' = saved.drive
      /\ path' = [path EXCEPT ![saved.drive] = Cwd!Target(saved.drive, name0)]
      /\ saved' = saved /\ buffer' = buffer
  BY <1>1 DEF Cwd!GoBack
<1> HIDE DEF name0
<1> QED BY <1>3, <1>4 DEF DrivesInv

LEMMA DrivesKeep ==
    ASSUME Cwd!DrivesAssumption, DrivesInv, Cwd!DrivesNext PROVE DrivesInv'
<1>1. ASSUME NEW n \in Cwd!PathNames, Cwd!chdir(n) PROVE DrivesInv'
  <2> DEFINE d == IF n.drive = Cwd!Current THEN drive ELSE n.drive
             target == Cwd!Target(d, Cwd!Rest(n))
  <2>1. d \in Mounted
    BY DEF DrivesInv, Cwd!PathNames
  <2>2. /\ drive' = d /\ returned' = FALSE /\ UNCHANGED <<saved, buffer>>
        /\ path' = IF target \in Paths THEN [path EXCEPT ![d] = target] ELSE path
    BY <1>1 DEF Cwd!chdir
  <2> HIDE DEF d, target
  <2> QED BY <2>1, <2>2 DEF DrivesInv
<1>2. ASSUME NEW d \in Mounted, Cwd!setdisk(d) PROVE DrivesInv'
  BY <1>2 DEF DrivesInv, Cwd!setdisk
<1> QED BY <1>1, <1>2, GetcwdKeeps, GoBackKeeps DEF Cwd!DrivesNext

LEMMA DrivesEnough ==
    ASSUME DrivesInv PROVE Cwd!LeadsBack
BY DEF DrivesInv, Cwd!LeadsBack

-----------------------------------------------------------------------------
(***************************************************************************)
(* The calls on a handle                                                    *)
(***************************************************************************)

Askers == {"filelength", "fstat", "isatty"}

HandleTypes ==
    /\ bytes \in Seq(Hdl!Bytes) /\ Len(bytes) <= MaxSize
    /\ handle \in [kind : Hdl!Kinds, access : Hdl!Accesses, pos : 0 .. MaxSize]
    /\ op \in [f : Askers \cup {"none"},
               next : {"none", "one", "end", "first", "again", "magic", "back"},
               pos : Int, size : Int, byte : Hdl!Bytes, w : BOOLEAN, x : BOOLEAN]
    /\ op.next = "none" => op = Hdl!Idle

\* What a call that asks knows at each of its steps: fstat reads and writes only a file
\* that it can read.
AskingWay ==
    /\ op.next # "none" =>
         /\ op.f \in Askers /\ bytes \in held
         /\ handle.kind = "file" => op.pos \in Nat
    /\ op.next = "one" => op.f = "isatty"
    /\ op.next \in {"end", "first", "again", "magic"} =>
         op.f # "isatty" /\ handle.kind # "closed"
    /\ op.next \in {"first", "again", "magic"} =>
         op.f = "fstat" /\ handle.kind = "file" /\ op.size > 0
    /\ op.next \in {"again", "magic"} => handle.access # "WRONLY" /\ 1 <= MaxSize
    /\ op.next = "again" /\ ~raced => bytes # <<>> /\ bytes[1] = op.byte
    /\ op.next = "magic" => op.size > 1

\* What it has found out by then.
FoundOut ==
    /\ op.next = "back" /\ op.f = "isatty" => (op.size = 0) = (handle.kind = "tty")
    /\ op.next \in {"first", "again", "magic", "back"} /\ op.f # "isatty" /\ handle.kind = "file" =>
         op.size \in Hdl!Lengths
    /\ op.next \in {"one", "end", "first", "again"} => ~op.w
    /\ op.next \in {"one", "end", "first", "again", "magic"} => ~op.x
    /\ op.w => handle.access = "RDWR" \/ handle.kind # "file"
    /\ op.x => \E f \in held : Hdl!Executable(f)
    /\ op.next \in {"magic", "back"} /\ op.f = "fstat" /\ handle.kind = "file"
         /\ handle.access = "RDWR" /\ <<>> \notin held => op.w
    /\ op.next = "back" /\ op.f = "fstat" /\ handle.kind = "file" /\ handle.access # "WRONLY"
         /\ (\A f \in held : Hdl!Executable(f)) => op.x

HandleInv ==
    HandleTypes /\ AskingWay /\ FoundOut /\ Hdl!ToldWasTrue /\ Hdl!LeavesTheBytes

LEMMA Larger ==
    ASSUME NEW a \in Int, NEW b \in Int
    PROVE  Hdl!Max({a, b}) = IF a >= b THEN a ELSE b
<1> DEFINE m == IF a >= b THEN a ELSE b
<1>1. m \in {a, b} /\ \A y \in {a, b} : m >= y
  OBVIOUS
<1>2. \A x \in {a, b} : (\A y \in {a, b} : x >= y) => x = m
  OBVIOUS
<1> HIDE DEF m
<1>3. (CHOOSE x \in {a, b} : \A y \in {a, b} : x >= y) = m
  BY <1>1, <1>2
<1> QED BY <1>3 DEF Hdl!Max, m

LEMMA Smaller ==
    ASSUME NEW a \in Int, NEW b \in Int
    PROVE  Hdl!Min({a, b}) = IF a <= b THEN a ELSE b
<1> DEFINE m == IF a <= b THEN a ELSE b
<1>1. m \in {a, b} /\ \A y \in {a, b} : m <= y
  OBVIOUS
<1>2. \A x \in {a, b} : (\A y \in {a, b} : x <= y) => x = m
  OBVIOUS
<1> HIDE DEF m
<1>3. (CHOOSE x \in {a, b} : \A y \in {a, b} : x <= y) = m
  BY <1>1, <1>2
<1> QED BY <1>3 DEF Hdl!Min, m

\* A position Fseek gives is in the file or before the one it was called at; the end is
\* the number of bytes.
LEMMA FseekGives ==
    ASSUME HandleTypes, Hdl!HandlesAssumption, NEW offset \in Int, NEW whence \in Hdl!Whence,
           NEW r, r = Hdl!Fseek(offset, whence)
    PROVE  /\ r \in Int
           /\ handle.kind = "closed" => r = -37
           /\ handle.kind = "tty" => r = 0
           /\ handle.kind = "file" =>
                /\ r \in 0 .. MaxSize \/ r = -64
                /\ whence = "SEEK_END" /\ offset = 0 => r = Len(bytes)
                /\ whence = "SEEK_CUR" /\ offset = 0 => r = handle.pos
                /\ whence = "SEEK_SET" /\ offset \in 0 .. Len(bytes) => r = offset
                /\ whence = "SEEK_SET" /\ offset = 1 => r # 0
           /\ Hdl!At(r) \in [kind : {handle.kind}, access : {handle.access}, pos : 0 .. MaxSize]
           /\ handle.kind = "file" /\ r \in 0 .. MaxSize => Hdl!At(r).pos = r
<1> DEFINE most == Hdl!Max({Len(bytes), handle.pos})
           to == Hdl!SeekTo(offset, whence)
<1>1. Len(bytes) \in 0 .. MaxSize /\ handle.pos \in 0 .. MaxSize /\ MaxSize \in Nat
  BY DEF HandleTypes, Hdl!HandlesAssumption
<1>2. most \in 0 .. MaxSize /\ Len(bytes) <= most /\ handle.pos <= most
  BY <1>1, Larger
<1>3. to = IF whence = "SEEK_SET" THEN offset
           ELSE IF whence = "SEEK_CUR" THEN handle.pos + offset ELSE Len(bytes) + offset
  BY DEF Hdl!SeekTo
<1>4. r = IF handle.kind = "closed" THEN -37 ELSE IF handle.kind = "tty" THEN 0
          ELSE IF to \in 0 .. most THEN to ELSE -64
  BY DEF Hdl!Fseek, Hdl!EBADF, Hdl!ERANGE
<1>5. to \in Int
  BY <1>1, <1>3
<1> HIDE DEF most, to
<1>6. r \in Int /\ (handle.kind = "file" => r \in 0 .. MaxSize \/ r = -64)
  BY <1>1, <1>2, <1>4, <1>5 DEF HandleTypes, Hdl!Kinds
<1>7. handle.kind = "file" =>
                /\ whence = "SEEK_END" /\ offset = 0 => r = Len(bytes)
                /\ whence = "SEEK_CUR" /\ offset = 0 => r = handle.pos
                /\ whence = "SEEK_SET" /\ offset \in 0 .. Len(bytes) => r = offset
                /\ whence = "SEEK_SET" /\ offset = 1 => r # 0
  BY <1>1, <1>2, <1>3, <1>4
<1>8. Hdl!At(r) = [handle EXCEPT !.pos = IF r >= 0 /\ handle.kind = "file" THEN r ELSE handle.pos]
  BY DEF Hdl!At
<1>9. /\ Hdl!At(r) \in [kind : {handle.kind}, access : {handle.access}, pos : 0 .. MaxSize]
      /\ handle.kind = "file" /\ r \in 0 .. MaxSize => Hdl!At(r).pos = r
  BY <1>1, <1>6, <1>8 DEF HandleTypes
<1> QED BY <1>4, <1>6, <1>7, <1>9

\* What there is to read, unless the file is open for writing only.
LEMMA FreadGives ==
    ASSUME HandleTypes, handle.kind = "file", NEW at \in Nat, NEW n \in Nat
    PROVE  /\ Hdl!Fread(at, n) \in Int
           /\ handle.access = "WRONLY" => Hdl!Fread(at, n) < 0
           /\ handle.access # "WRONLY" =>
                Hdl!Fread(at, n) = IF at + n <= Len(bytes) THEN n
                                   ELSE IF at <= Len(bytes) THEN Len(bytes) - at ELSE 0
<1> DEFINE least == Hdl!Min({n, Len(bytes) - at})
<1>1. Len(bytes) \in Nat
  BY DEF HandleTypes
<1>2. least = IF n <= Len(bytes) - at THEN n ELSE Len(bytes) - at
  BY <1>1, Smaller
<1>3. least \in Int
  BY <1>1, <1>2
<1>4. Hdl!Max({0, least}) = IF 0 >= least THEN 0 ELSE least
  <2> HIDE DEF least
  <2> QED BY <1>3, Larger
<1>5. Hdl!Fread(at, n) = IF handle.access = "WRONLY" THEN -36 ELSE Hdl!Max({0, least})
  BY DEF Hdl!Fread, Hdl!EACCES
<1> HIDE DEF least
<1> QED BY <1>1, <1>2, <1>4, <1>5

LEMMA WrittenGives ==
    ASSUME HandleTypes, NEW at \in Nat, at <= Len(bytes), NEW piece \in Seq(Hdl!Bytes)
    PROVE  /\ Hdl!Written(bytes, at, piece) \in Seq(Hdl!Bytes)
           /\ Len(Hdl!Written(bytes, at, piece))
                = IF Len(bytes) >= at + Len(piece) THEN Len(bytes) ELSE at + Len(piece)
           /\ \A i \in 1 .. Len(Hdl!Written(bytes, at, piece)) :
                Hdl!Written(bytes, at, piece)[i]
                  = IF i \in at + 1 .. at + Len(piece) THEN piece[i - at] ELSE bytes[i]
<1> DEFINE size == Hdl!Max({Len(bytes), at + Len(piece)})
           w == [i \in 1 .. size |-> IF i \in at + 1 .. at + Len(piece) THEN piece[i - at] ELSE bytes[i]]
<1>1. bytes \in Seq(Hdl!Bytes) /\ Len(bytes) \in Nat /\ Len(piece) \in Nat
  BY DEF HandleTypes
<1>2. size = (IF Len(bytes) >= at + Len(piece) THEN Len(bytes) ELSE at + Len(piece))
      /\ size \in Nat
  BY <1>1, Larger
<1>3. Hdl!Written(bytes, at, piece) = w
  BY DEF Hdl!Written
<1> HIDE DEF size
<1>4. \A i \in 1 .. size : w[i] \in Hdl!Bytes
  BY <1>1, <1>2
<1>5. w \in [1 .. size -> Hdl!Bytes]
  BY <1>4
<1>6. w \in Seq(Hdl!Bytes) /\ Len(w) = size
  BY <1>2, <1>5
<1>7. \A i \in 1 .. size : w[i] = IF i \in at + 1 .. at + Len(piece) THEN piece[i - at] ELSE bytes[i]
  OBVIOUS
<1> HIDE DEF w
<1> QED BY <1>2, <1>3, <1>6, <1>7

HandleSteps == Hdl!HandlesAssumption /\ HandleInv

LEMMA HandleStart ==
    ASSUME Hdl!HandlesAssumption, Hdl!HandlesInit PROVE HandleInv
<1>1. op = Hdl!Idle /\ op.next = "none"
  BY DEF Hdl!HandlesInit, Hdl!Idle
<1>2. bytes \in Seq(Hdl!Bytes) /\ Len(bytes) <= MaxSize /\ Len(bytes) \in Nat
  BY DEF Hdl!HandlesInit, Hdl!HandlesAssumption
<1>3. handle \in [kind : Hdl!Kinds, access : Hdl!Accesses, pos : 0 .. MaxSize]
  BY <1>2 DEF Hdl!HandlesInit, Hdl!Kinds, Hdl!Accesses, Hdl!HandlesAssumption
<1>4. HandleTypes
  BY <1>1, <1>2, <1>3 DEF HandleTypes, Hdl!Idle, Hdl!Bytes, Askers
<1>5. AskingWay
  BY <1>1 DEF AskingWay
<1>6. FoundOut
  BY <1>1 DEF FoundOut, Hdl!Idle
<1>7. Hdl!ToldWasTrue /\ Hdl!LeavesTheBytes
  BY DEF Hdl!HandlesInit, Hdl!ToldWasTrue, Hdl!LeavesTheBytes, Hdl!Tells
<1> QED BY <1>4, <1>5, <1>6, <1>7 DEF HandleInv

\* The calls of one step: nothing is being asked, before and after.
LEMMA IdleKeeps ==
    ASSUME HandleSteps, Hdl!Free, UNCHANGED <<op, held, raced>>,
           bytes' \in Seq(Hdl!Bytes), Len(bytes') <= MaxSize, raced \/ bytes' = theirs',
           handle' \in [kind : Hdl!Kinds, access : Hdl!Accesses, pos : 0 .. MaxSize],
           answer'.f \notin Askers
    PROVE  HandleInv'
<1>1. op = Hdl!Idle /\ op.next = "none"
  BY DEF Hdl!Free, Hdl!Idle
<1>2. HandleTypes'
  BY DEF HandleSteps, HandleInv, HandleTypes
<1>3. AskingWay' /\ FoundOut'
  BY <1>1 DEF AskingWay, FoundOut, Hdl!Idle
<1>4. Hdl!ToldWasTrue' /\ Hdl!LeavesTheBytes'
  BY DEF Hdl!ToldWasTrue, Hdl!LeavesTheBytes, Askers
<1> QED BY <1>2, <1>3, <1>4 DEF HandleInv

LEMMA ReadKeeps ==
    ASSUME HandleSteps, NEW n \in 1 .. 2, Hdl!read(n) PROVE HandleInv'
<1> DEFINE r == Hdl!Fread(handle.pos, n)
<1>1. /\ Hdl!Free /\ UNCHANGED <<bytes, op, held, theirs, raced>>
      /\ answer' = Hdl!Simple("read", r)
      /\ handle' = IF handle.kind = "file" /\ r > 0 THEN Hdl!At(handle.pos + r) ELSE handle
  BY DEF Hdl!read
<1>2. /\ handle \in [kind : Hdl!Kinds, access : Hdl!Accesses, pos : 0 .. MaxSize]
      /\ bytes \in Seq(Hdl!Bytes) /\ Len(bytes) <= MaxSize /\ Len(bytes) \in Nat
      /\ MaxSize \in Nat
  BY DEF HandleSteps, HandleInv, HandleTypes, Hdl!HandlesAssumption
<1>3. handle.kind = "file" /\ r > 0 => r \in Int /\ handle.pos + r \in 0 .. MaxSize
  <2>1. ASSUME handle.kind = "file", r > 0 PROVE r \in Int /\ handle.pos + r \in 0 .. MaxSize
    <3>1. HandleTypes /\ n \in Nat /\ handle.pos \in Nat
      BY <1>2 DEF HandleSteps, HandleInv
    <3>2. /\ r \in Int /\ (handle.access = "WRONLY" => r < 0)
          /\ handle.access # "WRONLY" =>
               r = IF handle.pos + n <= Len(bytes) THEN n
                   ELSE IF handle.pos <= Len(bytes) THEN Len(bytes) - handle.pos ELSE 0
      BY <2>1, <3>1, FreadGives
    <3> HIDE DEF r
    <3> QED BY <1>2, <2>1, <3>1, <3>2
  <2> QED BY <2>1
<1> HIDE DEF r
<1>4. handle' \in [kind : Hdl!Kinds, access : Hdl!Accesses, pos : 0 .. MaxSize]
  BY <1>1, <1>2, <1>3 DEF Hdl!At
<1>5. answer'.f \notin Askers
  BY <1>1 DEF Hdl!Simple, Hdl!Tells, Askers
<1>6. raced \/ bytes = theirs
  BY DEF HandleSteps, HandleInv, Hdl!LeavesTheBytes
<1> QED BY <1>1, <1>2, <1>4, <1>5, <1>6, IdleKeeps

LEMMA WriteKeeps ==
    ASSUME HandleSteps, NEW piece \in Pieces, Hdl!write(piece) PROVE HandleInv'
<1>1. /\ Hdl!Free /\ UNCHANGED <<op, held, raced>>
      /\ handle.pos <= Len(bytes) /\ handle.pos + Len(piece) <= MaxSize
      /\ answer'.f \notin Askers
  BY DEF Hdl!write, Hdl!Simple, Hdl!Tells, Askers
<1>2. /\ handle \in [kind : Hdl!Kinds, access : Hdl!Accesses, pos : 0 .. MaxSize]
      /\ bytes \in Seq(Hdl!Bytes) /\ Len(bytes) <= MaxSize /\ Len(bytes) \in Nat
      /\ MaxSize \in Nat /\ piece \in Seq(Hdl!Bytes) /\ Len(piece) \in Nat
      /\ HandleTypes
  BY DEF HandleSteps, HandleInv, HandleTypes, Hdl!HandlesAssumption
<1>3. CASE handle.kind = "file" /\ Hdl!Fwrite(Len(piece)) > 0
  <2>1. /\ bytes' = Hdl!Written(bytes, handle.pos, piece) /\ theirs' = bytes'
        /\ handle' = Hdl!At(handle.pos + Len(piece))
    BY <1>3 DEF Hdl!write
  <2>2. bytes' \in Seq(Hdl!Bytes) /\ Len(bytes') <= MaxSize
    BY <1>1, <1>2, <2>1, WrittenGives
  <2>3. handle' \in [kind : Hdl!Kinds, access : Hdl!Accesses, pos : 0 .. MaxSize]
    BY <1>1, <1>2, <2>1 DEF Hdl!At
  <2> QED BY <1>1, <2>1, <2>2, <2>3, IdleKeeps
<1>4. CASE ~(handle.kind = "file" /\ Hdl!Fwrite(Len(piece)) > 0)
  <2>1. UNCHANGED <<bytes, theirs, handle>>
    BY <1>4 DEF Hdl!write
  <2>2. raced \/ bytes = theirs
    BY DEF HandleSteps, HandleInv, Hdl!LeavesTheBytes
  <2> QED BY <1>1, <1>2, <2>1, <2>2, IdleKeeps
<1> QED BY <1>3, <1>4

LEMMA PlainKeeps ==
    ASSUME HandleSteps,
           \/ \E offset \in -1 .. 1, whence \in Hdl!Whence : Hdl!lseek(offset, whence)
           \/ Hdl!close \/ Hdl!getftime
    PROVE  HandleInv'
<1>1. /\ handle \in [kind : Hdl!Kinds, access : Hdl!Accesses, pos : 0 .. MaxSize]
      /\ bytes \in Seq(Hdl!Bytes) /\ Len(bytes) <= MaxSize /\ MaxSize \in Nat
      /\ raced \/ bytes = theirs
  BY DEF HandleSteps, HandleInv, HandleTypes, Hdl!HandlesAssumption, Hdl!LeavesTheBytes
<1>2. ASSUME NEW offset \in -1 .. 1, NEW whence \in Hdl!Whence, Hdl!lseek(offset, whence)
      PROVE  HandleInv'
  <2> DEFINE r == Hdl!Fseek(offset, whence)
  <2>1. /\ Hdl!Free /\ UNCHANGED <<bytes, op, held, theirs, raced>>
        /\ answer' = Hdl!Tells("lseek", r, 0) /\ handle' = Hdl!At(r)
    BY <1>2 DEF Hdl!lseek
  <2>2. Hdl!At(r) \in [kind : {handle.kind}, access : {handle.access}, pos : 0 .. MaxSize]
    BY FseekGives DEF HandleSteps, HandleInv
  <2> HIDE DEF r
  <2>3. handle' \in [kind : Hdl!Kinds, access : Hdl!Accesses, pos : 0 .. MaxSize]
    BY <1>1, <2>1, <2>2
  <2>4. answer'.f \notin Askers
    BY <2>1 DEF Hdl!Tells, Askers
  <2> QED BY <1>1, <2>1, <2>3, <2>4, IdleKeeps
<1>3. ASSUME Hdl!close PROVE HandleInv'
  <2>1. /\ Hdl!Free /\ UNCHANGED <<bytes, op, held, theirs, raced>>
        /\ answer'.f \notin Askers
    BY <1>3 DEF Hdl!close, Hdl!Simple, Hdl!Tells, Askers
  <2>2. handle' = [handle EXCEPT !.kind = "closed", !.pos = 0]
    BY <1>3 DEF Hdl!close
  <2>3. handle' \in [kind : Hdl!Kinds, access : Hdl!Accesses, pos : 0 .. MaxSize]
    <3>1. "closed" \in Hdl!Kinds /\ 0 \in 0 .. MaxSize
      BY <1>1 DEF Hdl!Kinds
    <3> QED BY <1>1, <2>2, <3>1
  <2> QED BY <1>1, <2>1, <2>3, IdleKeeps
<1>4. ASSUME Hdl!getftime PROVE HandleInv'
  <2>1. /\ Hdl!Free /\ UNCHANGED <<bytes, handle, op, held, theirs, raced>>
        /\ answer'.f \notin Askers
    BY <1>4 DEF Hdl!getftime, Hdl!Tells, Askers
  <2> QED BY <1>1, <2>1, IdleKeeps
<1> QED BY <1>2, <1>3, <1>4

LEMMA BeginKeeps ==
    ASSUME HandleSteps, NEW f \in Askers, Hdl!Begin(f) PROVE HandleInv'
<1> DEFINE r == Hdl!Fseek(0, "SEEK_CUR")
<1>1. /\ Hdl!Free /\ UNCHANGED <<bytes, handle>> /\ held' = {bytes} /\ theirs' = bytes
      /\ raced' = FALSE /\ op = Hdl!Idle /\ op.next = "none"
  BY DEF Hdl!Begin, Hdl!Free, Hdl!Idle
<1>2. /\ r \in Int /\ (handle.kind = "closed" => r = -37) /\ (handle.kind = "tty" => r = 0)
      /\ handle.kind = "file" => r = handle.pos
  BY FseekGives DEF HandleSteps, HandleInv, Hdl!Whence
<1>3. /\ handle \in [kind : Hdl!Kinds, access : Hdl!Accesses, pos : 0 .. MaxSize]
      /\ HandleTypes /\ MaxSize \in Nat
  BY DEF HandleSteps, HandleInv, HandleTypes, Hdl!HandlesAssumption
<1>4. Hdl!LeavesTheBytes'
  BY <1>1 DEF Hdl!LeavesTheBytes
<1>5. CASE r < 0 /\ f # "isatty"
  <2>1. answer' = Hdl!Simple(f, r) /\ op' = op /\ handle.kind = "closed"
    BY <1>2, <1>3, <1>5 DEF Hdl!Begin, Hdl!Kinds
  <2>2. HandleTypes'
    BY <1>1, <1>3, <2>1 DEF HandleTypes
  <2>3. AskingWay' /\ FoundOut'
    BY <1>1, <2>1 DEF AskingWay, FoundOut, Hdl!Idle
  <2>4. answer'.f # "isatty" /\ handle'.kind # "file"
    BY <1>1, <1>5, <2>1 DEF Hdl!Simple, Hdl!Tells
  <2>5. Hdl!ToldWasTrue'
    BY <2>4 DEF Hdl!ToldWasTrue
  <2> QED BY <1>4, <2>2, <2>3, <2>5 DEF HandleInv
<1>6. CASE ~(r < 0 /\ f # "isatty")
  <2>1. op' = [Hdl!Idle EXCEPT !.f = f, !.pos = r,
                               !.next = IF f = "isatty" THEN "one" ELSE "end"]
    BY <1>6 DEF Hdl!Begin
  <2>2. /\ op'.f = f /\ op'.pos = r /\ op'.w = FALSE /\ op'.x = FALSE /\ op'.size = 0
        /\ op'.next = (IF f = "isatty" THEN "one" ELSE "end")
    BY <2>1 DEF Hdl!Idle
  <2> HIDE DEF r
  <2>3. op' \in [f : Askers \cup {"none"},
               next : {"none", "one", "end", "first", "again", "magic", "back"},
               pos : Int, size : Int, byte : Hdl!Bytes, w : BOOLEAN, x : BOOLEAN]
    <3> DEFINE no == FALSE
               z == "z"
               nx == IF f = "isatty" THEN "one" ELSE "end"
    <3>1. op' = [f |-> f, next |-> nx, pos |-> r, size |-> 0, byte |-> z, w |-> no, x |-> no]
      BY <2>1 DEF Hdl!Idle
    <3>2. no \in BOOLEAN /\ z \in Hdl!Bytes /\ f \in Askers \cup {"none"}
          /\ nx \in {"none", "one", "end", "first", "again", "magic", "back"}
      BY DEF Hdl!Bytes
    <3> HIDE DEF no, z, nx
    <3> QED BY <1>2, <3>1, <3>2
  <2>4. HandleTypes'
    BY <1>1, <1>3, <2>2, <2>3 DEF HandleTypes
  <2>5. AskingWay'
    BY <1>1, <1>2, <1>3, <1>6, <2>2 DEF AskingWay
  <2>6. FoundOut'
    BY <2>2 DEF FoundOut
  <2>7. Hdl!ToldWasTrue'
    BY <2>2 DEF Hdl!ToldWasTrue, Hdl!Free, Hdl!Idle, Askers
  <2> QED BY <1>4, <2>4, <2>5, <2>6, <2>7 DEF HandleInv
<1> QED BY <1>5, <1>6

LEMMA OneKeeps ==
    ASSUME HandleSteps, Hdl!One PROVE HandleInv'
<1> DEFINE r == Hdl!Fseek(1, "SEEK_SET")
<1>1. /\ r \in Int /\ (r = 0) = (handle.kind = "tty")
      /\ Hdl!At(r) \in [kind : {handle.kind}, access : {handle.access}, pos : 0 .. MaxSize]
  <2>1. /\ r \in Int /\ (handle.kind = "closed" => r = -37) /\ (handle.kind = "tty" => r = 0)
        /\ handle.kind = "file" => r # 0
        /\ Hdl!At(r) \in [kind : {handle.kind}, access : {handle.access}, pos : 0 .. MaxSize]
    BY FseekGives DEF HandleSteps, HandleInv, Hdl!Whence
  <2>2. handle.kind \in Hdl!Kinds
    BY DEF HandleSteps, HandleInv, HandleTypes
  <2> HIDE DEF r
  <2> QED BY <2>1, <2>2 DEF Hdl!Kinds
<1>2. /\ op.next = "one" /\ op.f = "isatty" /\ handle' = Hdl!At(r)
      /\ op' = [op EXCEPT !.size = r, !.next = "back"]
      /\ UNCHANGED <<bytes, answer, held, theirs, raced>>
  BY DEF Hdl!One, HandleSteps, HandleInv, AskingWay
<1> HIDE DEF r
<1>3. handle'.kind = handle.kind /\ handle'.access = handle.access
  BY <1>1, <1>2
<1>4. /\ op'.f = op.f /\ op'.next = "back" /\ op'.size = r /\ op'.w = op.w /\ op'.x = op.x
      /\ op'.pos = op.pos
  BY <1>2 DEF HandleSteps, HandleInv, HandleTypes
<1>5. HandleTypes'
  BY <1>1, <1>2, <1>4 DEF HandleSteps, HandleInv, HandleTypes
<1>6. AskingWay'
  BY <1>2, <1>3, <1>4 DEF HandleSteps, HandleInv, AskingWay
<1>7. FoundOut'
  BY <1>1, <1>2, <1>3, <1>4 DEF HandleSteps, HandleInv, FoundOut
<1>8. Hdl!ToldWasTrue' /\ Hdl!LeavesTheBytes'
  BY <1>2, <1>4 DEF HandleSteps, HandleInv, Hdl!ToldWasTrue, Hdl!LeavesTheBytes, Hdl!Free, Hdl!Idle
<1> QED BY <1>5, <1>6, <1>7, <1>8 DEF HandleInv

LEMMA EndKeeps ==
    ASSUME HandleSteps, Hdl!End PROVE HandleInv'
<1> DEFINE r == Hdl!Fseek(0, "SEEK_END")
<1>1. /\ r \in Int /\ (handle.kind = "tty" => r = 0) /\ (handle.kind = "file" => r = Len(bytes))
      /\ Hdl!At(r) \in [kind : {handle.kind}, access : {handle.access}, pos : 0 .. MaxSize]
  BY FseekGives DEF HandleSteps, HandleInv, HandleTypes, Hdl!Whence
<1>2. /\ op.next = "end" /\ op.f # "isatty" /\ handle.kind \in {"file", "tty"}
      /\ op.f \in Askers /\ handle' = Hdl!At(r)
      /\ op' = [op EXCEPT !.size = r,
                          !.next = IF op.f = "fstat" /\ r > 0 THEN "first" ELSE "back"]
      /\ bytes \in held
      /\ UNCHANGED <<bytes, answer, held, theirs, raced>>
  BY DEF Hdl!End, HandleSteps, HandleInv, AskingWay, HandleTypes, Hdl!Kinds
<1> HIDE DEF r
<1>3. handle'.kind = handle.kind /\ handle'.access = handle.access
  BY <1>1, <1>2
<1>4. /\ op'.f = op.f /\ op'.size = r /\ op'.w = op.w /\ op'.x = op.x /\ op'.pos = op.pos
      /\ op'.next = (IF op.f = "fstat" /\ r > 0 THEN "first" ELSE "back")
  BY <1>2 DEF HandleSteps, HandleInv, HandleTypes
<1>5. HandleTypes'
  <2>1. op' \in [f : Askers \cup {"none"},
               next : {"none", "one", "end", "first", "again", "magic", "back"},
               pos : Int, size : Int, byte : Hdl!Bytes, w : BOOLEAN, x : BOOLEAN]
    BY <1>1, <1>2 DEF HandleSteps, HandleInv, HandleTypes
  <2> QED BY <1>1, <1>2, <1>4, <2>1 DEF HandleSteps, HandleInv, HandleTypes
<1>6. AskingWay'
  BY <1>1, <1>2, <1>3, <1>4 DEF HandleSteps, HandleInv, AskingWay
<1>7. handle.kind = "file" => r \in Hdl!Lengths /\ (r = 0 => bytes = <<>>)
  BY <1>1, <1>2 DEF Hdl!Lengths, HandleSteps, HandleInv, HandleTypes
<1>8. handle.kind = "file" /\ Hdl!Executable(bytes) => r >= 2
  BY <1>1 DEF Hdl!Executable
<1>9. Hdl!Lengths' = Hdl!Lengths /\ \A g : Hdl!Executable(g)' = Hdl!Executable(g)
  BY <1>2 DEF Hdl!Lengths, Hdl!Executable
<1>10. FoundOut'
  BY <1>1, <1>2, <1>3, <1>4, <1>7, <1>8, <1>9 DEF HandleSteps, HandleInv, FoundOut
<1>11. Hdl!ToldWasTrue' /\ Hdl!LeavesTheBytes'
  BY <1>2, <1>4 DEF HandleSteps, HandleInv, Hdl!ToldWasTrue, Hdl!LeavesTheBytes, Hdl!Free, Hdl!Idle
<1> QED BY <1>5, <1>6, <1>10, <1>11 DEF HandleInv

LEMMA FirstKeeps ==
    ASSUME HandleSteps, Hdl!First PROVE HandleInv'
<1> DEFINE r == Hdl!Fread(0, 1)
<1>1. /\ op.next = "first" /\ op.f = "fstat" /\ handle.kind = "file" /\ op.size > 0
      /\ op' = IF r = 1 THEN [op EXCEPT !.byte = bytes[1], !.next = "again"]
               ELSE [op EXCEPT !.next = "back"]
      /\ handle' = [handle EXCEPT !.pos = Hdl!Max({0, r})]
      /\ bytes \in held /\ ~op.w /\ ~op.x
      /\ UNCHANGED <<bytes, answer, held, theirs, raced>>
  BY DEF Hdl!First, HandleSteps, HandleInv, AskingWay, FoundOut
<1>2. /\ HandleTypes /\ bytes \in Seq(Hdl!Bytes) /\ Len(bytes) \in Nat /\ Len(bytes) <= MaxSize
      /\ MaxSize \in Nat
      /\ handle \in [kind : Hdl!Kinds, access : Hdl!Accesses, pos : 0 .. MaxSize]
  BY DEF HandleSteps, HandleInv, HandleTypes, Hdl!HandlesAssumption
<1>3. /\ r \in Int /\ (handle.access = "WRONLY" => r < 0)
      /\ handle.access # "WRONLY" => r = IF 1 <= Len(bytes) THEN 1 ELSE 0
  <2> DEFINE at == 0
             n == 1
  <2>1. at \in Nat /\ n \in Nat /\ r = Hdl!Fread(at, n)
    OBVIOUS
  <2> HIDE DEF r, at, n
  <2>2. /\ r \in Int /\ (handle.access = "WRONLY" => r < 0)
        /\ handle.access # "WRONLY" =>
             r = IF at + n <= Len(bytes) THEN n
                 ELSE IF at <= Len(bytes) THEN Len(bytes) - at ELSE 0
    BY <1>1, <1>2, <2>1, FreadGives
  <2> QED BY <1>2, <2>2 DEF at, n
<1>4. r <= MaxSize /\ (r = 1 <=> handle.access # "WRONLY" /\ 1 <= Len(bytes))
  <2> HIDE DEF r
  <2> QED BY <1>2, <1>3
<1>5. Hdl!Max({0, r}) \in 0 .. MaxSize
  <2>1. Hdl!Max({0, r}) = IF 0 >= r THEN 0 ELSE r
    <3> HIDE DEF r
    <3> QED BY <1>3, Larger
  <2> HIDE DEF r
  <2> QED BY <1>2, <1>3, <1>4, <2>1
<1>6. handle'.kind = "file" /\ handle'.access = handle.access
      /\ handle' \in [kind : Hdl!Kinds, access : Hdl!Accesses, pos : 0 .. MaxSize]
  BY <1>1, <1>2, <1>5
<1> HIDE DEF r
<1>7. /\ op'.f = op.f /\ op'.size = op.size /\ op'.w = op.w /\ op'.x = op.x /\ op'.pos = op.pos
      /\ op'.next = (IF r = 1 THEN "again" ELSE "back")
      /\ r = 1 => op'.byte = bytes[1]
  BY <1>1, <1>2 DEF HandleTypes
<1>8. HandleTypes'
  <2>1. r = 1 => bytes[1] \in Hdl!Bytes
    BY <1>2, <1>4
  <2>2. op' \in [f : Askers \cup {"none"},
               next : {"none", "one", "end", "first", "again", "magic", "back"},
               pos : Int, size : Int, byte : Hdl!Bytes, w : BOOLEAN, x : BOOLEAN]
    BY <1>1, <1>2, <2>1 DEF HandleTypes
  <2> QED BY <1>1, <1>2, <1>6, <1>7, <2>2 DEF HandleTypes
<1>9. AskingWay'
  BY <1>1, <1>2, <1>4, <1>6, <1>7 DEF HandleSteps, HandleInv, AskingWay
<1>10. /\ Hdl!Lengths' = Hdl!Lengths /\ \A g : Hdl!Executable(g)' = Hdl!Executable(g)
       /\ Hdl!Executable(bytes) => 2 <= Len(bytes)
       /\ Len(bytes) = 0 => bytes = <<>>
  BY <1>1, <1>2 DEF Hdl!Lengths, Hdl!Executable
<1>11. FoundOut'
  <2>1. op.size \in Hdl!Lengths
    BY <1>1 DEF HandleSteps, HandleInv, FoundOut
  <2>2. op'.next = "back" =>
          /\ ~(handle'.access = "RDWR" /\ <<>> \notin held')
          /\ ~(handle'.access # "WRONLY" /\ \A g \in held' : Hdl!Executable(g)')
    BY <1>1, <1>2, <1>4, <1>6, <1>7, <1>10
  <2> QED BY <1>1, <1>6, <1>7, <1>10, <2>1, <2>2 DEF FoundOut
<1>12. Hdl!ToldWasTrue' /\ Hdl!LeavesTheBytes'
  BY <1>1, <1>7 DEF HandleSteps, HandleInv, Hdl!ToldWasTrue, Hdl!LeavesTheBytes, Hdl!Free, Hdl!Idle
<1> QED BY <1>8, <1>9, <1>11, <1>12 DEF HandleInv

\* fstat writes back the byte it has read, and the file is as before unless somebody has
\* changed that byte.
LEMMA AgainKeeps ==
    ASSUME HandleSteps, Hdl!Again PROVE HandleInv'
<1> DEFINE r == Hdl!Fwrite(1)
           b == <<op.byte>>
<1>1. /\ op.next = "again" /\ op.f = "fstat" /\ handle.kind = "file" /\ op.size > 0
      /\ handle.access # "WRONLY" /\ 1 <= MaxSize
      /\ op' = [op EXCEPT !.w = (r = 1), !.next = IF op.size > 1 THEN "magic" ELSE "back"]
      /\ handle' = [handle EXCEPT !.pos = IF r = 1 THEN 1 ELSE 0]
      /\ bytes' = IF r = 1 THEN Hdl!Written(bytes, 0, b) ELSE bytes
      /\ held' = held \cup {bytes'}
      /\ bytes \in held /\ ~op.w /\ ~op.x
      /\ UNCHANGED <<answer, theirs, raced>>
  BY DEF Hdl!Again, HandleSteps, HandleInv, AskingWay, FoundOut
<1>2. /\ HandleTypes /\ bytes \in Seq(Hdl!Bytes) /\ Len(bytes) \in Nat /\ Len(bytes) <= MaxSize
      /\ MaxSize \in Nat /\ op.byte \in Hdl!Bytes /\ op.size \in Int
      /\ handle \in [kind : Hdl!Kinds, access : Hdl!Accesses, pos : 0 .. MaxSize]
  BY DEF HandleSteps, HandleInv, HandleTypes, Hdl!HandlesAssumption
<1>3. r = 1 <=> handle.access # "RDONLY"
  BY <1>1 DEF Hdl!Fwrite, Hdl!EACCES
<1>4. handle.access \in {"RDONLY", "RDWR"}
  BY <1>1, <1>2 DEF Hdl!Accesses
<1>5. /\ Hdl!Written(bytes, 0, b) \in Seq(Hdl!Bytes)
      /\ Len(Hdl!Written(bytes, 0, b)) = IF Len(bytes) >= 1 THEN Len(bytes) ELSE 1
      /\ \A i \in 1 .. Len(Hdl!Written(bytes, 0, b)) :
           Hdl!Written(bytes, 0, b)[i] = IF i \in 0 + 1 .. 0 + 1 THEN b[i - 0] ELSE bytes[i]
  <2> DEFINE at == 0
             w == Hdl!Written(bytes, at, b)
  <2>1. b \in Seq(Hdl!Bytes) /\ Len(b) = 1 /\ at \in Nat /\ at <= Len(bytes)
    BY <1>2
  <2>2. /\ w \in Seq(Hdl!Bytes)
        /\ Len(w) = IF Len(bytes) >= at + Len(b) THEN Len(bytes) ELSE at + Len(b)
        /\ \A i \in 1 .. Len(w) :
             w[i] = IF i \in at + 1 .. at + Len(b) THEN b[i - at] ELSE bytes[i]
    <3> HIDE DEF b, at
    <3> QED BY <1>2, <2>1, WrittenGives
  <2>3. w = Hdl!Written(bytes, 0, b)
    OBVIOUS
  <2> HIDE DEF b, w
  <2> QED BY <1>2, <2>1, <2>2, <2>3
<1>6. bytes # <<>> /\ bytes[1] = op.byte => Hdl!Written(bytes, 0, b) = bytes
  <2> SUFFICES ASSUME bytes # <<>>, bytes[1] = op.byte PROVE Hdl!Written(bytes, 0, b) = bytes
    OBVIOUS
  <2> DEFINE w == Hdl!Written(bytes, 0, b)
  <2>1. Len(bytes) >= 1
    BY <1>2
  <2>2. w \in Seq(Hdl!Bytes) /\ Len(w) = Len(bytes)
    BY <1>5, <2>1
  <2>3. \A i \in 1 .. Len(w) : w[i] = IF i \in 1 .. 1 THEN op.byte ELSE bytes[i]
    BY <1>5
  <2> HIDE DEF w
  <2>4. \A i \in 1 .. Len(bytes) : w[i] = bytes[i]
    BY <2>2, <2>3
  <2>5. w = bytes
    BY <1>2, <2>2, <2>4
  <2> QED BY <2>5 DEF w
<1> HIDE DEF r, b
<1>7. bytes' \in Seq(Hdl!Bytes) /\ Len(bytes') <= MaxSize
  BY <1>1, <1>2, <1>5
<1>8. /\ op'.f = op.f /\ op'.size = op.size /\ op'.w = (r = 1) /\ op'.x = op.x /\ op'.pos = op.pos
      /\ op'.next = (IF op.size > 1 THEN "magic" ELSE "back")
  BY <1>1, <1>2 DEF HandleTypes
<1>9. handle'.kind = "file" /\ handle'.access = handle.access
      /\ handle' \in [kind : Hdl!Kinds, access : Hdl!Accesses, pos : 0 .. MaxSize]
  BY <1>1, <1>2
<1>10. HandleTypes'
  <2> DEFINE yes == r = 1
  <2>1. yes \in BOOLEAN
    OBVIOUS
  <2> HIDE DEF yes
  <2>2. op' = [op EXCEPT !.w = yes, !.next = IF op.size > 1 THEN "magic" ELSE "back"]
    BY <1>1 DEF yes
  <2>3. op' \in [f : Askers \cup {"none"},
               next : {"none", "one", "end", "first", "again", "magic", "back"},
               pos : Int, size : Int, byte : Hdl!Bytes, w : BOOLEAN, x : BOOLEAN]
    BY <1>2, <2>1, <2>2 DEF HandleTypes
  <2> QED BY <1>7, <1>8, <1>9, <2>3 DEF HandleTypes
<1>11. AskingWay'
  BY <1>1, <1>8, <1>9 DEF HandleSteps, HandleInv, AskingWay
<1>12. /\ Hdl!Lengths \subseteq Hdl!Lengths' /\ \A g : Hdl!Executable(g)' = Hdl!Executable(g)
       /\ held \subseteq held' /\ bytes' \in held'
  BY <1>1 DEF Hdl!Lengths, Hdl!Executable
<1>13. op.size \in Hdl!Lengths /\ ((\A g \in held : Hdl!Executable(g)) => op.size >= 2)
  BY <1>1 DEF HandleSteps, HandleInv, FoundOut, Hdl!Lengths, Hdl!Executable
<1>14. FoundOut'
  <2>1. /\ op'.next \in {"magic", "back"} /\ op'.f = "fstat" /\ handle'.kind = "file"
        /\ op'.size \in Hdl!Lengths' /\ ~op'.x
    BY <1>1, <1>8, <1>9, <1>12, <1>13
  <2>2. op'.w <=> handle'.access = "RDWR"
    BY <1>3, <1>4, <1>8, <1>9
  <2>3. op'.next = "back" => ~\A g \in held' : Hdl!Executable(g)'
    BY <1>2, <1>8, <1>12, <1>13
  <2> QED BY <2>1, <2>2, <2>3 DEF FoundOut
<1>15. Hdl!ToldWasTrue'
  BY <1>8 DEF Hdl!ToldWasTrue, Hdl!Free, Hdl!Idle
<1>16. Hdl!LeavesTheBytes'
  BY <1>1, <1>6 DEF HandleSteps, HandleInv, AskingWay, Hdl!LeavesTheBytes
<1> QED BY <1>10, <1>11, <1>14, <1>15, <1>16 DEF HandleInv

LEMMA ReadMagicKeeps ==
    ASSUME HandleSteps, Hdl!ReadMagic PROVE HandleInv'
<1> DEFINE r == Hdl!Fread(0, 2)
           found == r = 2 /\ SubSeq(bytes, 1, 2) = Hdl!Magic
<1>1. /\ op.next = "magic" /\ op.f = "fstat" /\ handle.kind = "file" /\ op.size > 1
      /\ handle.access # "WRONLY"
      /\ op' = [op EXCEPT !.x = found, !.next = "back"]
      /\ handle' = [handle EXCEPT !.pos = r]
      /\ bytes \in held
      /\ UNCHANGED <<bytes, answer, held, theirs, raced>>
  BY DEF Hdl!ReadMagic, HandleSteps, HandleInv, AskingWay
<1>2. /\ HandleTypes /\ bytes \in Seq(Hdl!Bytes) /\ Len(bytes) \in Nat /\ Len(bytes) <= MaxSize
      /\ MaxSize \in Nat
      /\ handle \in [kind : Hdl!Kinds, access : Hdl!Accesses, pos : 0 .. MaxSize]
  BY DEF HandleSteps, HandleInv, HandleTypes, Hdl!HandlesAssumption
<1>3. r = IF 2 <= Len(bytes) THEN 2 ELSE Len(bytes)
  <2> DEFINE at == 0
             n == 2
  <2>1. at \in Nat /\ n \in Nat /\ r = Hdl!Fread(at, n)
    OBVIOUS
  <2> HIDE DEF r, at, n
  <2>2. r = IF at + n <= Len(bytes) THEN n
            ELSE IF at <= Len(bytes) THEN Len(bytes) - at ELSE 0
    BY <1>1, <1>2, <2>1, FreadGives
  <2> QED BY <1>2, <2>2 DEF at, n
<1> HIDE DEF r
<1>4. r \in 0 .. MaxSize
  BY <1>2, <1>3
<1>5. found <=> Hdl!Executable(bytes)
  BY <1>2, <1>3 DEF Hdl!Executable
<1>6. found \in BOOLEAN
  OBVIOUS
<1> HIDE DEF found
<1>7. handle'.kind = "file" /\ handle'.access = handle.access
      /\ handle' \in [kind : Hdl!Kinds, access : Hdl!Accesses, pos : 0 .. MaxSize]
  BY <1>1, <1>2, <1>4
<1>8. /\ op'.f = op.f /\ op'.size = op.size /\ op'.w = op.w /\ op'.x = found /\ op'.pos = op.pos
      /\ op'.next = "back"
  BY <1>1, <1>2 DEF HandleTypes
<1>9. HandleTypes'
  <2>1. op' \in [f : Askers \cup {"none"},
               next : {"none", "one", "end", "first", "again", "magic", "back"},
               pos : Int, size : Int, byte : Hdl!Bytes, w : BOOLEAN, x : BOOLEAN]
    BY <1>1, <1>2, <1>6 DEF HandleTypes
  <2> QED BY <1>1, <1>2, <1>7, <1>8, <2>1 DEF HandleTypes
<1>10. AskingWay'
  BY <1>1, <1>7, <1>8 DEF HandleSteps, HandleInv, AskingWay
<1>11. Hdl!Lengths' = Hdl!Lengths /\ \A g : Hdl!Executable(g)' = Hdl!Executable(g)
  BY <1>1 DEF Hdl!Lengths, Hdl!Executable
<1>12. FoundOut'
  BY <1>1, <1>5, <1>7, <1>8, <1>11 DEF HandleSteps, HandleInv, FoundOut
<1>13. Hdl!ToldWasTrue' /\ Hdl!LeavesTheBytes'
  BY <1>1, <1>8 DEF HandleSteps, HandleInv, Hdl!ToldWasTrue, Hdl!LeavesTheBytes, Hdl!Free, Hdl!Idle
<1> QED BY <1>9, <1>10, <1>12, <1>13 DEF HandleInv

LEMMA BackKeeps ==
    ASSUME HandleSteps, Hdl!Back PROVE HandleInv'
<1> DEFINE r == Hdl!Fseek(op.pos, "SEEK_SET")
<1>1. /\ op.next = "back" /\ op.f \in Askers /\ op' = Hdl!Idle /\ op'.next = "none"
      /\ answer' = [f |-> op.f, errno |-> 0, size |-> op.size, w |-> op.w, x |-> op.x,
                    code |-> IF op.f = "isatty" THEN IF op.size = 0 THEN 1 ELSE 0
                             ELSE IF op.f = "filelength" THEN op.size ELSE 0]
      /\ handle' = Hdl!At(r)
      /\ UNCHANGED <<bytes, held, theirs, raced>>
  BY DEF Hdl!Back, Hdl!Idle, HandleSteps, HandleInv, AskingWay
<1>2. Hdl!At(r) \in [kind : {handle.kind}, access : {handle.access}, pos : 0 .. MaxSize]
  BY FseekGives DEF HandleSteps, HandleInv, HandleTypes, Hdl!Whence
<1> HIDE DEF r
<1>3. handle'.kind = handle.kind /\ handle'.access = handle.access
  BY <1>1, <1>2
<1>4. HandleTypes'
  <2> DEFINE no == FALSE
             z == "z"
             none == "none"
             zero == 0
  <2>1. op' = [f |-> none, next |-> none, pos |-> zero, size |-> zero, byte |-> z, w |-> no, x |-> no]
    BY <1>1 DEF Hdl!Idle
  <2>2. no \in BOOLEAN /\ z \in Hdl!Bytes /\ none \in Askers \cup {"none"} /\ zero \in Int
        /\ none \in {"none", "one", "end", "first", "again", "magic", "back"}
    BY DEF Hdl!Bytes
  <2> HIDE DEF no, z, none, zero
  <2>3. op' \in [f : Askers \cup {"none"},
               next : {"none", "one", "end", "first", "again", "magic", "back"},
               pos : Int, size : Int, byte : Hdl!Bytes, w : BOOLEAN, x : BOOLEAN]
    BY <2>1, <2>2
  <2> QED BY <1>1, <1>2, <2>3 DEF HandleSteps, HandleInv, HandleTypes
<1>5. AskingWay' /\ FoundOut'
  BY <1>1 DEF AskingWay, FoundOut, Hdl!Idle
<1>6. Hdl!Lengths' = Hdl!Lengths /\ \A g : Hdl!Executable(g)' = Hdl!Executable(g)
  BY <1>1 DEF Hdl!Lengths, Hdl!Executable
<1>7. /\ answer'.f = op.f /\ answer'.size = op.size /\ answer'.w = op.w /\ answer'.x = op.x
      /\ op.f = "isatty" => answer'.code = IF op.size = 0 THEN 1 ELSE 0
  BY <1>1
<1>8. Hdl!ToldWasTrue'
  BY <1>1, <1>3, <1>6, <1>7 DEF HandleSteps, HandleInv, FoundOut, Hdl!ToldWasTrue
<1>9. Hdl!LeavesTheBytes'
  BY <1>1 DEF HandleSteps, HandleInv, Hdl!LeavesTheBytes
<1> QED BY <1>4, <1>5, <1>8, <1>9 DEF HandleInv

LEMMA OtherChangesKeeps ==
    ASSUME HandleSteps, NEW f \in Seq(Hdl!Bytes), Len(f) <= MaxSize, Hdl!OtherChanges(f)
    PROVE  HandleInv'
<1>1. /\ handle.kind = "file" /\ bytes' = f /\ f # bytes
      /\ theirs' = (IF theirs = bytes THEN f ELSE theirs)
      /\ held' = (IF Hdl!Free THEN held ELSE held \cup {f})
      /\ raced' = (raced \/ (op.next = "again" /\ (f = <<>> \/ f[1] # op.byte)))
      /\ UNCHANGED <<handle, op, answer>>
  BY DEF Hdl!OtherChanges
<1>2. HandleTypes'
  BY <1>1 DEF HandleSteps, HandleInv, HandleTypes
<1>3. Hdl!LeavesTheBytes'
  BY <1>1 DEF HandleSteps, HandleInv, Hdl!LeavesTheBytes
<1>4. CASE Hdl!Free
  <2>1. op.next = "none" /\ op = Hdl!Idle /\ held' = held
    BY <1>1, <1>4 DEF Hdl!Free, Hdl!Idle
  <2>2. AskingWay' /\ FoundOut'
    BY <1>1, <2>1 DEF AskingWay, FoundOut, Hdl!Idle
  <2>3. Hdl!Lengths' = Hdl!Lengths /\ \A g : Hdl!Executable(g)' = Hdl!Executable(g)
    BY <2>1 DEF Hdl!Lengths, Hdl!Executable
  <2>4. Hdl!ToldWasTrue'
    BY <1>1, <1>4, <2>1, <2>3 DEF HandleSteps, HandleInv, Hdl!ToldWasTrue, Hdl!Free
  <2> QED BY <1>2, <1>3, <2>2, <2>4 DEF HandleInv
<1>5. CASE ~Hdl!Free
  <2>1. held \subseteq held' /\ bytes' \in held' /\ op.next # "none"
    BY <1>1, <1>5 DEF Hdl!Free, HandleSteps, HandleInv, HandleTypes
  <2>2. AskingWay'
    BY <1>1, <2>1 DEF HandleSteps, HandleInv, AskingWay
  <2>3. Hdl!Lengths \subseteq Hdl!Lengths' /\ \A g : Hdl!Executable(g)' = Hdl!Executable(g)
    BY <2>1 DEF Hdl!Lengths, Hdl!Executable
  <2>4. FoundOut'
    BY <1>1, <2>1, <2>3 DEF HandleSteps, HandleInv, FoundOut
  <2>5. Hdl!ToldWasTrue'
    BY <1>1, <1>5 DEF Hdl!ToldWasTrue, Hdl!Free
  <2> QED BY <1>2, <1>3, <2>2, <2>4, <2>5 DEF HandleInv
<1> QED BY <1>4, <1>5

LEMMA HandleKeeps ==
    ASSUME HandleSteps, Hdl!HandlesNext PROVE HandleInv'
<1>1. bytes \in Seq(Hdl!Bytes) /\ Len(bytes) \in Nat /\ Len(bytes) <= MaxSize /\ MaxSize \in Nat
  BY DEF HandleSteps, HandleInv, HandleTypes, Hdl!HandlesAssumption
<1>2. ASSUME NEW b \in Hdl!Bytes, bytes # <<>>, Hdl!OtherChanges([bytes EXCEPT ![1] = b])
      PROVE  HandleInv'
  <2> DEFINE f == [bytes EXCEPT ![1] = b]
  <2>1. f \in Seq(Hdl!Bytes) /\ Len(f) = Len(bytes)
    <3>1. bytes \in [1 .. Len(bytes) -> Hdl!Bytes]
      BY <1>1
    <3>2. f \in [1 .. Len(bytes) -> Hdl!Bytes]
      BY <3>1
    <3> HIDE DEF f
    <3> QED BY <1>1, <3>2
  <2> HIDE DEF f
  <2>2. Hdl!OtherChanges(f)
    BY <1>2 DEF f
  <2> QED BY <1>1, <2>1, <2>2, OtherChangesKeeps
<1>3. ASSUME NEW b \in Hdl!Bytes, Len(bytes) < MaxSize, Hdl!OtherChanges(Append(bytes, b))
      PROVE  HandleInv'
  <2>1. Append(bytes, b) \in Seq(Hdl!Bytes) /\ Len(Append(bytes, b)) <= MaxSize
    BY <1>1, <1>3
  <2> QED BY <1>3, <2>1, OtherChangesKeeps
<1>4. ASSUME NEW n \in 0 .. Len(bytes) - 1, Hdl!OtherChanges(SubSeq(bytes, 1, n))
      PROVE  HandleInv'
  <2>1. SubSeq(bytes, 1, n) \in Seq(Hdl!Bytes) /\ Len(SubSeq(bytes, 1, n)) = n
    BY <1>1
  <2>2. n <= MaxSize
    BY <1>1
  <2> QED BY <1>4, <2>1, <2>2, OtherChangesKeeps
<1>5. ASSUME NEW f \in {"filelength", "fstat", "isatty"}, Hdl!Begin(f) PROVE HandleInv'
  BY <1>5, BeginKeeps DEF Askers
<1>6. ASSUME Hdl!Asking PROVE HandleInv'
  BY <1>6, OneKeeps, EndKeeps, FirstKeeps, AgainKeeps, ReadMagicKeeps, BackKeeps DEF Hdl!Asking
<1> QED BY <1>2, <1>3, <1>4, <1>5, <1>6, ReadKeeps, WriteKeeps, PlainKeeps DEF Hdl!HandlesNext

\* For every file, buffer and current directory: what isatty, filelength and fstat tell
\* was true during the call, whatever another process does to the file meanwhile, fstat
\* leaves the file as it was unless that process changes its first byte between two of
\* its calls, and getcwd stays in its buffer and tells where chdir leads back to.
THEOREM FilesTellTheTruth == FilesSpec => []TellsTheFile
<1> DEFINE Inv == (used = "handle" => HandleInv) /\ (used = "drives" => DrivesInv)
<1>1. FilesInit => Inv
  BY HandleStart, DrivesStart, FilesAssumption DEF FilesInit
<1>2. Inv /\ [FilesNext]_fileVars => Inv'
  <2>1. ASSUME Inv, HandleStep PROVE Inv'
    <3>1. used = "handle" /\ used' = used /\ HandleSteps /\ Hdl!HandlesNext
      BY <2>1, FilesAssumption DEF HandleStep, HandleSteps
    <3> QED BY <3>1, HandleKeeps
  <2>2. ASSUME Inv, DriveStep PROVE Inv'
    <3>1. used = "drives" /\ used' = used /\ Cwd!DrivesNext
      BY <2>2 DEF DriveStep
    <3> QED BY <2>2, <3>1, DrivesKeep, FilesAssumption
  <2>3. ASSUME Inv, UNCHANGED used, used # "handle" \/ UNCHANGED handleVars,
               used # "drives" \/ UNCHANGED driveVars
        PROVE Inv'
    <3>1. UNCHANGED handleVars /\ HandleInv => HandleInv'
      BY DEF handleVars, HandleInv, HandleTypes, AskingWay, FoundOut, Hdl!ToldWasTrue, Hdl!Free,
         Hdl!LeavesTheBytes, Hdl!Lengths, Hdl!Executable
    <3>2. UNCHANGED driveVars /\ DrivesInv => DrivesInv'
      BY DEF driveVars, DrivesInv
    <3> QED BY <2>3, <3>1, <3>2
  <2> QED BY <2>1, <2>2, <2>3 DEF FilesNext, DirStep, NameStep, fileVars
<1>3. Inv => TellsTheFile
  BY DrivesEnough DEF TellsTheFile, HandleInv, HandleTypes, Hdl!HandlesTypeOK, Hdl!Kinds,
     Hdl!Accesses, Askers
<1> QED BY <1>1, <1>2, <1>3, PTL DEF FilesSpec

-----------------------------------------------------------------------------
(***************************************************************************)
(* Directory streams                                                        *)
(***************************************************************************)

\* What opendir may keep for rewinddir, and what that may stand for.
JoinedPaths == {Dirs!Joined(c, n.path) : c \in DOMAIN Tree, n \in Names}
KeptNames == Names \cup [abs : {TRUE}, path : JoinedPaths]
Places ==
    DOMAIN Tree \cup {n.path : n \in KeptNames} \cup {c \o n.path : c \in DOMAIN Tree, n \in KeptNames}

DirRecords ==
    [status : Dirs!Statuses, off : Nat, dirname : KeptNames \cup {NULL}, opened : Places,
     abs : BOOLEAN]
SearchRecords == [path : DOMAIN Tree, at : Nat]
ToldRecords == [pos : Nat, ahead : Seq(STRING)]

\* d_off counts what the stream has given, its DTA stands at the last of it, and for a
\* stream opened by an absolute name what telldir has told is a place in the directory.
StreamInOrder(D, S, given, place) ==
    D.status # "closed" =>
      /\ D.dirname # NULL /\ D.abs => D.dirname.abs /\ D.dirname.path = D.opened
      /\ D.off <= Len(Dirs!Entries(D.opened)) /\ given = SubSeq(Dirs!Entries(D.opened), 1, D.off)
      /\ D.status = Dirs!NoFile => D.off = Len(Dirs!Entries(D.opened))
      /\ D.status \in {"STARTSEARCH", "INSEARCH"} => S.path = D.opened
      /\ D.status = "STARTSEARCH" => D.off = 0 /\ S.at = 1 /\ Dirs!Entries(D.opened) # <<>>
      /\ D.status = "INSEARCH" => S.at = D.off /\ D.off # 0
      /\ D.abs =>
           /\ place.pos <= Len(Dirs!Entries(D.opened))
           /\ place.ahead = SubSeq(Dirs!Entries(D.opened), place.pos + 1, Len(Dirs!Entries(D.opened)))

\* The DTA of a search of the program stands at the last it has given.
ProgramInOrder(S, given, place) ==
    given # <<>> =>
      /\ place.ahead = Tree[S.path] /\ S.at \in 1 .. Len(Tree[S.path])
      /\ given = SubSeq(Tree[S.path], 1, S.at)

DirsInv ==
    /\ dir \in [Streams -> DirRecords]
    /\ search \in [Dirs!Searches \cup {Dirs!Stack} -> SearchRecords]
    /\ seen \in [Dirs!Searches -> Seq(STRING)]
    /\ told \in [Dirs!Searches -> ToldRecords]
    /\ dta = Dirs!User /\ cwd \in Dirs!Folders
    /\ \A d \in Streams : StreamInOrder(dir[d], search[d], seen[d], told[d])
    /\ \A w \in {Dirs!User, Dirs!Block} : ProgramInOrder(search[w], seen[w], told[w])

DirsAssumed == Dirs!DirectoriesAssumption

\* The front parts of a list.
LEMMA FrontParts ==
    ASSUME NEW T \in Seq(STRING)
    PROVE  /\ SubSeq(T, 1, 0) = <<>> /\ SubSeq(T, 1, Len(T)) = T
           /\ \A n \in 0 .. Len(T) :
                /\ SubSeq(T, 1, n) \in Seq(STRING) /\ Len(SubSeq(T, 1, n)) = n
                /\ SubSeq(T, n + 1, Len(T)) \in Seq(STRING)
                /\ Len(SubSeq(T, n + 1, Len(T))) = Len(T) - n
                /\ SubSeq(T, 1, n) \o SubSeq(T, n + 1, Len(T)) = T
                /\ Dirs!IsPrefix(SubSeq(T, 1, n), T)
           /\ \A n \in 0 .. Len(T) - 1 :
                Append(SubSeq(T, 1, n), T[n + 1]) = SubSeq(T, 1, n + 1)
<1> DEFINE N == Len(T)
<1>1. N \in Nat
  OBVIOUS
<1>2. SubSeq(T, 1, 0) = <<>>
  OBVIOUS
<1>3. SubSeq(T, 1, Len(T)) = T
  OBVIOUS
<1>4. ASSUME NEW n \in 0 .. Len(T)
      PROVE  /\ SubSeq(T, 1, n) \in Seq(STRING) /\ Len(SubSeq(T, 1, n)) = n
             /\ SubSeq(T, n + 1, Len(T)) \in Seq(STRING)
             /\ Len(SubSeq(T, n + 1, Len(T))) = Len(T) - n
             /\ SubSeq(T, 1, n) \o SubSeq(T, n + 1, Len(T)) = T
             /\ Dirs!IsPrefix(SubSeq(T, 1, n), T)
  <2> DEFINE front == SubSeq(T, 1, n)
             rest == SubSeq(T, n + 1, Len(T))
  <2>1. front \in Seq(STRING) /\ Len(front) = n /\ \A i \in 1 .. n : front[i] = T[i]
    OBVIOUS
  <2>2. rest \in Seq(STRING) /\ Len(rest) = Len(T) - n
        /\ \A i \in 1 .. Len(T) - n : rest[i] = T[n + i]
    OBVIOUS
  <2> HIDE DEF front, rest
  <2>3. front \o rest \in Seq(STRING) /\ Len(front \o rest) = Len(T)
    BY <2>1, <2>2
  <2>4. \A i \in 1 .. Len(T) : (front \o rest)[i] = T[i]
    BY <2>1, <2>2
  <2>5. front \o rest = T
    <3> DEFINE both == front \o rest
    <3> HIDE DEF both
    <3>1. both \in Seq(STRING) /\ Len(both) = Len(T) /\ \A i \in 1 .. Len(T) : both[i] = T[i]
      BY <2>3, <2>4 DEF both
    <3>2. both = T
      BY <3>1
    <3> QED BY <3>2 DEF both
  <2>6. SubSeq(front, 1, Len(front)) = front
    BY <2>1
  <2>7. Dirs!IsPrefix(front, T)
    BY <2>1, <2>6 DEF Dirs!IsPrefix, front
  <2> QED BY <2>1, <2>2, <2>5, <2>7 DEF front, rest
<1>5. ASSUME NEW n \in 0 .. Len(T) - 1
      PROVE  Append(SubSeq(T, 1, n), T[n + 1]) = SubSeq(T, 1, n + 1)
  <2> DEFINE front == SubSeq(T, 1, n)
             longer == SubSeq(T, 1, n + 1)
  <2>1. front \in Seq(STRING) /\ Len(front) = n /\ \A i \in 1 .. n : front[i] = T[i]
    OBVIOUS
  <2>2. longer \in Seq(STRING) /\ Len(longer) = n + 1 /\ \A i \in 1 .. n + 1 : longer[i] = T[i]
    OBVIOUS
  <2>3. T[n + 1] \in STRING
    OBVIOUS
  <2> HIDE DEF front, longer
  <2>4. Append(front, T[n + 1]) \in Seq(STRING) /\ Len(Append(front, T[n + 1])) = n + 1
    BY <2>1, <2>3
  <2>5. \A i \in 1 .. n + 1 : Append(front, T[n + 1])[i] = longer[i]
    BY <2>1, <2>2
  <2>6. Append(front, T[n + 1]) = longer
    BY <2>2, <2>4, <2>5
  <2> QED BY <2>6 DEF front, longer
<1> QED BY <1>2, <1>3, <1>4, <1>5

\* A step that changes what belongs to one stream.
LEMMA StreamMoves ==
    ASSUME DirsInv, Dirs!DirectoriesAssumption,
           NEW d \in Streams, NEW D \in DirRecords, NEW S \in SearchRecords,
           NEW given \in Seq(STRING), NEW place \in ToldRecords,
           StreamInOrder(D, S, given, place),
           dir' = [dir EXCEPT ![d] = D], search' = [search EXCEPT ![d] = S],
           seen' = [seen EXCEPT ![d] = given], told' = [told EXCEPT ![d] = place],
           dta' = dta, cwd' = cwd
    PROVE  DirsInv'
<1>1. d \in Dirs!Searches /\ d # Dirs!User /\ d # Dirs!Block
  BY DEF Dirs!DirectoriesAssumption, Dirs!Searches
<1>2. /\ dir' \in [Streams -> DirRecords]
      /\ search' \in [Dirs!Searches \cup {Dirs!Stack} -> SearchRecords]
      /\ seen' \in [Dirs!Searches -> Seq(STRING)]
      /\ told' \in [Dirs!Searches -> ToldRecords]
  BY <1>1 DEF DirsInv
<1>3. ASSUME NEW e \in Streams PROVE StreamInOrder(dir'[e], search'[e], seen'[e], told'[e])
  <2>1. e \in Dirs!Searches
    BY DEF Dirs!Searches
  <2>2. CASE e = d
    <3>1. dir'[e] = D /\ search'[e] = S /\ seen'[e] = given /\ told'[e] = place
      BY <1>1, <2>2 DEF DirsInv
    <3> QED BY <3>1
  <2>3. CASE e # d
    <3>1. dir'[e] = dir[e] /\ search'[e] = search[e] /\ seen'[e] = seen[e] /\ told'[e] = told[e]
      BY <1>1, <2>1, <2>3 DEF DirsInv
    <3> QED BY <3>1 DEF DirsInv
  <2> QED BY <2>2, <2>3
<1>4. ASSUME NEW w \in {Dirs!User, Dirs!Block} PROVE ProgramInOrder(search'[w], seen'[w], told'[w])
  <2>1. w \in Dirs!Searches /\ w # d
    BY <1>1 DEF Dirs!Searches
  <2>2. search'[w] = search[w] /\ seen'[w] = seen[w] /\ told'[w] = told[w]
    BY <1>1, <2>1 DEF DirsInv
  <2> QED BY <2>2 DEF DirsInv
<1> QED BY <1>2, <1>3, <1>4 DEF DirsInv, StreamInOrder, ProgramInOrder

\* A step that changes what belongs to a search of the program.
LEMMA ProgramMoves ==
    ASSUME DirsInv, Dirs!DirectoriesAssumption,
           NEW w \in {Dirs!User, Dirs!Block}, NEW S \in SearchRecords,
           NEW given \in Seq(STRING), NEW place \in ToldRecords,
           ProgramInOrder(S, given, place),
           dir' = dir, search' = [search EXCEPT ![w] = S],
           seen' = [seen EXCEPT ![w] = given], told' = [told EXCEPT ![w] = place],
           dta' = dta, cwd' = cwd
    PROVE  DirsInv'
<1>1. w \in Dirs!Searches /\ w \notin Streams
  BY DEF Dirs!DirectoriesAssumption, Dirs!Searches
<1>2. /\ search' \in [Dirs!Searches \cup {Dirs!Stack} -> SearchRecords]
      /\ seen' \in [Dirs!Searches -> Seq(STRING)]
      /\ told' \in [Dirs!Searches -> ToldRecords]
  BY <1>1 DEF DirsInv
<1>3. ASSUME NEW e \in Streams PROVE StreamInOrder(dir'[e], search'[e], seen'[e], told'[e])
  <2>1. e \in Dirs!Searches /\ e # w
    BY <1>1 DEF Dirs!Searches
  <2>2. dir'[e] = dir[e] /\ search'[e] = search[e] /\ seen'[e] = seen[e] /\ told'[e] = told[e]
    BY <1>1, <2>1 DEF DirsInv
  <2> QED BY <2>2 DEF DirsInv
<1>4. ASSUME NEW v \in {Dirs!User, Dirs!Block} PROVE ProgramInOrder(search'[v], seen'[v], told'[v])
  <2>1. v \in Dirs!Searches
    BY DEF Dirs!Searches
  <2>2. CASE v = w
    <3>1. search'[v] = S /\ seen'[v] = given /\ told'[v] = place
      BY <1>1, <2>2 DEF DirsInv
    <3> QED BY <3>1
  <2>3. CASE v # w
    <3>1. search'[v] = search[v] /\ seen'[v] = seen[v] /\ told'[v] = told[v]
      BY <1>1, <2>1, <2>3 DEF DirsInv
    <3> QED BY <3>1 DEF DirsInv
  <2> QED BY <2>2, <2>3
<1> QED BY <1>2, <1>3, <1>4 DEF DirsInv, StreamInOrder, ProgramInOrder

LEMMA EntriesOf ==
    ASSUME Dirs!DirectoriesAssumption, NEW p
    PROVE  /\ Dirs!Entries(p) \in Seq(STRING)
           /\ p \in DOMAIN Tree => Dirs!Entries(p) = Tree[p]
           /\ Dirs!FsfirstResult(p) = "found" <=> Dirs!Entries(p) # <<>>
           /\ Dirs!Entries(p) # <<>> => p \in DOMAIN Tree
<1> DEFINE none == <<>>
<1>1. none \in Seq(STRING)
  OBVIOUS
<1>2. Dirs!Entries(p) = IF p \in DOMAIN Tree THEN Tree[p] ELSE none
  BY DEF Dirs!Entries
<1>3. p \in DOMAIN Tree => Tree[p] \in Seq(STRING)
  BY DEF Dirs!DirectoriesAssumption
<1>4. Dirs!FsfirstResult(p) = "found" <=> p \in DOMAIN Tree /\ Dirs!Entries(p) # <<>>
  BY DEF Dirs!FsfirstResult
<1> QED BY <1>1, <1>2, <1>3, <1>4

\* What a kept name stands for is a place.
LEMMA KeptGives ==
    ASSUME Dirs!DirectoriesAssumption, cwd \in Dirs!Folders
    PROVE  /\ cwd \in DOMAIN Tree
           /\ \A n \in KeptNames : Dirs!Resolve(n) \in Places
           /\ \A n \in Names : Dirs!DirName(n) \in KeptNames
           /\ Dirs!Root \in Places
<1>1. cwd \in DOMAIN Tree /\ Dirs!Root \in DOMAIN Tree
  BY DEF Dirs!Folders, Dirs!DirectoriesAssumption
<1>2. \A n \in KeptNames : Dirs!Resolve(n) \in Places
  BY <1>1 DEF Dirs!Resolve, Places
<1>3. ASSUME NEW n \in Names PROVE Dirs!DirName(n) \in KeptNames
  <2> DEFINE joined == [abs |-> TRUE, path |-> Dirs!Joined(cwd, n.path)]
  <2>1. joined \in [abs : {TRUE}, path : JoinedPaths]
    <3>1. Dirs!Joined(cwd, n.path) \in JoinedPaths
      BY <1>1 DEF JoinedPaths
    <3> QED BY <3>1
  <2>2. Dirs!DirName(n) \in {n, joined}
    BY DEF Dirs!DirName
  <2> HIDE DEF joined
  <2>3. n \in KeptNames /\ joined \in KeptNames
    BY <2>1 DEF KeptNames
  <2> QED BY <2>2, <2>3
<1> QED BY <1>1, <1>2, <1>3 DEF Places

\* What the invariant says of one stream.
LEMMA OneStream ==
    ASSUME DirsInv, Dirs!DirectoriesAssumption, NEW d \in Streams
    PROVE  /\ dir[d] \in DirRecords /\ search[d] \in SearchRecords
           /\ seen[d] \in Seq(STRING) /\ told[d] \in ToldRecords
           /\ dir = [dir EXCEPT ![d] = dir[d]] /\ search = [search EXCEPT ![d] = search[d]]
           /\ seen = [seen EXCEPT ![d] = seen[d]] /\ told = [told EXCEPT ![d] = told[d]]
           /\ Dirs!Entries(dir[d].opened) \in Seq(STRING)
           /\ StreamInOrder(dir[d], search[d], seen[d], told[d])
<1>1. d \in Dirs!Searches
  BY DEF Dirs!Searches
<1>2. dir[d] \in DirRecords /\ search[d] \in SearchRecords
  BY <1>1 DEF DirsInv
<1>3. Dirs!Entries(dir[d].opened) \in Seq(STRING)
  BY EntriesOf
<1> QED BY <1>1, <1>2, <1>3 DEF DirsInv

LEMMA OneProgram ==
    ASSUME DirsInv, Dirs!DirectoriesAssumption, NEW w \in {Dirs!User, Dirs!Block}
    PROVE  /\ search[w] \in SearchRecords /\ seen[w] \in Seq(STRING) /\ told[w] \in ToldRecords
           /\ search = [search EXCEPT ![w] = search[w]]
           /\ seen = [seen EXCEPT ![w] = seen[w]] /\ told = [told EXCEPT ![w] = told[w]]
           /\ Tree[search[w].path] \in Seq(STRING)
           /\ ProgramInOrder(search[w], seen[w], told[w])
<1>1. w \in Dirs!Searches
  BY DEF Dirs!Searches
<1>2. search[w] \in SearchRecords
  BY <1>1 DEF DirsInv
<1>3. Tree[search[w].path] \in Seq(STRING)
  BY <1>2 DEF SearchRecords, Dirs!DirectoriesAssumption
<1> QED BY <1>1, <1>2, <1>3 DEF DirsInv

LEMMA DirsStart ==
    ASSUME Dirs!DirectoriesAssumption, Dirs!Init PROVE DirsInv
<1> DEFINE root == Dirs!Root
           closed == "closed"
           none == <<>>
           zero == 0
           yes == TRUE
<1>1. root \in DOMAIN Tree /\ root \in Places /\ yes \in BOOLEAN /\ closed \in Dirs!Statuses /\ none \in Seq(STRING) /\ zero \in Nat
  BY DEF Dirs!DirectoriesAssumption, Dirs!Statuses, Places
<1>2. /\ dir = [d \in Streams |-> [status |-> closed, off |-> zero, dirname |-> NULL, opened |-> root,
                                   abs |-> yes]]
      /\ search = [w \in Dirs!Searches \cup {Dirs!Stack} |-> [path |-> root, at |-> zero]]
      /\ seen = [w \in Dirs!Searches |-> none]
      /\ told = [w \in Dirs!Searches |-> [pos |-> zero, ahead |-> none]]
  BY DEF Dirs!Init, Dirs!Nothing, Dirs!NoSearch, Dirs!Closed
<1>3. \A d \in Streams : dir[d].status = "closed"
  BY <1>2
<1>4. \A w \in {Dirs!User, Dirs!Block} : seen[w] = <<>>
  BY <1>2 DEF Dirs!Searches
<1> HIDE DEF root, closed, none, zero, yes
<1>5. /\ dir \in [Streams -> DirRecords]
      /\ search \in [Dirs!Searches \cup {Dirs!Stack} -> SearchRecords]
      /\ seen \in [Dirs!Searches -> Seq(STRING)]
      /\ told \in [Dirs!Searches -> ToldRecords]
  BY <1>1, <1>2 DEF DirRecords, SearchRecords, ToldRecords
<1>6. dta = Dirs!User /\ cwd \in Dirs!Folders
  BY DEF Dirs!Init
<1>7. \A d \in Streams : StreamInOrder(dir[d], search[d], seen[d], told[d])
  BY <1>3 DEF StreamInOrder
<1>8. \A w \in {Dirs!User, Dirs!Block} : ProgramInOrder(search[w], seen[w], told[w])
  BY <1>4 DEF ProgramInOrder
<1> QED BY <1>5, <1>6, <1>7, <1>8 DEF DirsInv

LEMMA DirsStay ==
    ASSUME DirsInv, UNCHANGED <<dir, search, seen, told, dta>>, cwd' \in Dirs!Folders PROVE DirsInv'
BY DEF DirsInv, StreamInOrder, ProgramInOrder

\* The directory a search is made in is one, and not empty.
LEMMA FsfirstGives ==
    ASSUME Dirs!DirectoriesAssumption, NEW p, NEW w, Dirs!Fsfirst(w, p)
    PROVE  /\ Dirs!FsfirstResult(p) # "EPATH" <=> p \in DOMAIN Tree
           /\ Dirs!FsfirstResult(p) = "found" <=> p \in DOMAIN Tree /\ Tree[p] # <<>>
           /\ search' = IF Dirs!FsfirstResult(p) = "found"
                        THEN [search EXCEPT ![w] = [path |-> p, at |-> 1]] ELSE search
BY DEF Dirs!Fsfirst, Dirs!FsfirstResult, Dirs!Entries

LEMMA OpendirKeeps ==
    ASSUME DirsAssumed, DirsInv, NEW d \in Streams, NEW n \in Names, Dirs!Opendir(d, n)
    PROVE  DirsInv'
<1> DEFINE p == Dirs!Resolve(n)
           r == Dirs!FsfirstResult(p)
<1>1. Dirs!DirectoriesAssumption /\ cwd' = cwd /\ cwd \in Dirs!Folders
  BY DEF DirsAssumed, DirsInv, Dirs!Opendir
<1>0. CASE UNCHANGED <<dir, dta, search, seen, told>>
  BY <1>0, <1>1, DirsStay
<1>2. CASE Dirs!OpendirSearches(d, n)
  <2>0. Dirs!Fsfirst(d, p) /\ dta' = dta
    BY <1>2 DEF Dirs!OpendirSearches, Dirs!DtaAfter
  <2>1. /\ r # "EPATH" <=> p \in DOMAIN Tree
        /\ r = "found" <=> p \in DOMAIN Tree /\ Tree[p] # <<>>
        /\ search' = IF r = "found" THEN [search EXCEPT ![d] = [path |-> p, at |-> 1]] ELSE search
    BY <1>1, <2>0, FsfirstGives
  <2>2. CASE r = "EPATH"
    <3>1. UNCHANGED <<dir, seen, told>> /\ search' = search
      BY <1>2, <2>1, <2>2 DEF Dirs!OpendirSearches, Dirs!OpenFails
    <3> QED BY <1>1, <2>0, <3>1, DirsStay
  <2>3. CASE r # "EPATH"
    <3>1. PICK dirname \in {Dirs!DirName(n)} \cup (IF MayFail THEN {NULL} ELSE {}) :
            dir' = [dir EXCEPT ![d] =
                         [status |-> IF r = "found" THEN "STARTSEARCH" ELSE Dirs!NoFile, off |-> 0,
                          dirname |-> dirname, opened |-> p, abs |-> n.abs]]
      BY <1>2, <2>3 DEF Dirs!OpendirSearches, Dirs!OpenFails
    <3>2. /\ seen' = [seen EXCEPT ![d] = <<>>]
          /\ told' = [told EXCEPT ![d] = [pos |-> 0, ahead |-> Dirs!Entries(p)]]
      BY <1>2, <2>3 DEF Dirs!OpendirSearches, Dirs!OpenFails
    <3> DEFINE status == IF r = "found" THEN "STARTSEARCH" ELSE Dirs!NoFile
               zero == 0
               abs == n.abs
               E == Dirs!Entries(p)
               D == [status |-> status, off |-> zero, dirname |-> dirname, opened |-> p, abs |-> abs]
               S == IF r = "found" THEN [path |-> p, at |-> 1] ELSE search[d]
               none == <<>>
               place == [pos |-> zero, ahead |-> E]
    <3>3. /\ p \in DOMAIN Tree /\ p \in Places /\ E \in Seq(STRING) /\ (r = "found" <=> E # <<>>)
          /\ abs \in BOOLEAN /\ dirname \in KeptNames \cup {NULL}
      <4>1. p \in DOMAIN Tree /\ p \in Places
        BY <2>1, <2>3 DEF Places
      <4>2. E \in Seq(STRING) /\ (r = "found" <=> E # <<>>)
        BY <1>1, EntriesOf
      <4>3. abs \in BOOLEAN
        BY <1>1 DEF Dirs!DirectoriesAssumption
      <4>4. Dirs!DirName(n) \in KeptNames
        BY <1>1, KeptGives
      <4> QED BY <3>1, <4>1, <4>2, <4>3, <4>4
    <3>4. abs /\ dirname # NULL => p = n.path /\ dirname = n
      BY <3>1 DEF Dirs!Resolve, Dirs!DirName
    <3>5. D \in DirRecords
      <4>1. status \in Dirs!Statuses /\ zero \in Nat
        BY DEF Dirs!Statuses
      <4> HIDE DEF status, zero, p, abs
      <4> QED BY <3>3, <4>1 DEF DirRecords
    <3>6. S \in SearchRecords
      BY <3>3, <1>1, OneStream DEF SearchRecords
    <3>7. none \in Seq(STRING) /\ place \in ToldRecords
      <4> HIDE DEF E
      <4> QED BY <3>3 DEF ToldRecords
    <3>8. StreamInOrder(D, S, none, place)
      <4>1. /\ SubSeq(E, 1, 0) = <<>> /\ SubSeq(E, 1, Len(E)) = E
            /\ Len(E) \in Nat /\ (E = <<>> => Len(E) = 0)
        <5> HIDE DEF E
        <5> QED BY <3>3, FrontParts
      <4>2. D.dirname # NULL /\ D.abs => D.dirname.abs /\ D.dirname.path = D.opened
        BY <3>4
      <4>3. status = "STARTSEARCH" => r = "found"
        BY DEF Dirs!NoFile
      <4>4. /\ D.status = status /\ D.off = 0 /\ D.opened = p /\ status # "closed"
            /\ place.pos = 0 /\ place.ahead = E /\ none = <<>>
            /\ r = "found" => S.path = p /\ S.at = 1
            /\ r # "found" => status = Dirs!NoFile /\ status # "STARTSEARCH"
            /\ status # "INSEARCH"
        BY DEF Dirs!NoFile
      <4>5. none = SubSeq(E, 1, 0) /\ (status = Dirs!NoFile => Len(E) = 0)
        BY <3>3, <4>1, <4>4 DEF Dirs!NoFile
      <4>6. E = Dirs!Entries(p) /\ E = SubSeq(E, 0 + 1, Len(E)) /\ 0 <= Len(E)
        BY <4>1
      <4> HIDE DEF D, S, place, none, status, E, r, p
      <4> QED BY <3>3, <4>1, <4>2, <4>3, <4>4, <4>5, <4>6 DEF StreamInOrder, Dirs!NoFile
    <3>9. /\ dir' = [dir EXCEPT ![d] = D] /\ told' = [told EXCEPT ![d] = place]
          /\ seen' = [seen EXCEPT ![d] = none]
      BY <3>1, <3>2
    <3>10. search' = [search EXCEPT ![d] = S]
      BY <1>1, <2>1, OneStream
    <3> HIDE DEF D, S, none, place
    <3> QED BY <1>1, <2>0, <3>5, <3>6, <3>7, <3>8, <3>9, <3>10, StreamMoves
  <2> QED BY <2>2, <2>3
<1> QED BY <1>0, <1>2 DEF Dirs!Opendir

LEMMA ReaddirKeeps ==
    ASSUME DirsAssumed, DirsInv, NEW d \in Streams, Dirs!Readdir(d)
    PROVE  DirsInv'
<1> DEFINE T == Dirs!Entries(dir[d].opened)
<1>1. /\ Dirs!DirectoriesAssumption /\ dta' = dta /\ cwd' = cwd /\ told' = told
      /\ dir[d].status # "closed"
  BY DEF DirsAssumed, Dirs!Readdir, Dirs!DtaAfter
<1>2. /\ dir[d] \in DirRecords /\ search[d] \in SearchRecords
      /\ seen[d] \in Seq(STRING) /\ told[d] \in ToldRecords
      /\ dir = [dir EXCEPT ![d] = dir[d]] /\ search = [search EXCEPT ![d] = search[d]]
      /\ seen = [seen EXCEPT ![d] = seen[d]] /\ told = [told EXCEPT ![d] = told[d]]
      /\ T \in Seq(STRING)
      /\ StreamInOrder(dir[d], search[d], seen[d], told[d])
  BY <1>1, OneStream
<1>3. /\ \A k \in 0 .. Len(T) - 1 : Append(SubSeq(T, 1, k), T[k + 1]) = SubSeq(T, 1, k + 1)
      /\ \A k \in 0 .. Len(T) : SubSeq(T, 1, k) \in Seq(STRING)
      /\ SubSeq(T, 1, 0) = <<>> /\ Len(T) \in Nat /\ (T # <<>> => Len(T) >= 1)
  <2>1. T \in Seq(STRING)
    BY <1>2
  <2> HIDE DEF T
  <2> QED BY <2>1, FrontParts
<1> DEFINE off == dir[d].off
           Read == [dir[d] EXCEPT !.status = "INSEARCH", !.off = off + 1]
           given == SubSeq(T, 1, off + 1)
<1>4. off \in Nat
  BY <1>2 DEF DirRecords
<1>5. ASSUME dir[d].status = "STARTSEARCH" \/ (dir[d].status = "INSEARCH" /\ Dirs!HasNext(d)),
             dir' = [dir EXCEPT ![d] = Read],
             seen' = [seen EXCEPT ![d] = Append(seen[d], T[off + 1])],
             search' = [search EXCEPT ![d] = [path |-> dir[d].opened, at |-> off + 1]]
      PROVE  DirsInv'
  <2> DEFINE S == [path |-> dir[d].opened, at |-> off + 1]
  <2>1. off \in 0 .. Len(T) - 1 /\ seen[d] = SubSeq(T, 1, off)
    BY SMTT(60), <1>1, <1>2, <1>3, <1>4, <1>5 DEF StreamInOrder, Dirs!HasNext
  <2>2. Append(seen[d], T[off + 1]) = given /\ given \in Seq(STRING)
    <3> HIDE DEF T, off
    <3>1. off + 1 \in 0 .. Len(T)
      BY <1>3, <2>1
    <3> QED BY <1>3, <2>1, <3>1
  <2>0. dir[d].opened \in DOMAIN Tree
    BY <1>1, <1>2, <1>5 DEF StreamInOrder, SearchRecords
  <2>3. /\ Read \in DirRecords /\ S \in SearchRecords
        /\ Read.abs = dir[d].abs
        /\ Read.opened = dir[d].opened /\ Read.dirname = dir[d].dirname
        /\ Read.off = off + 1 /\ Read.status = "INSEARCH"
    <3> DEFINE in == "INSEARCH"
               next == off + 1
    <3>1. in \in Dirs!Statuses /\ next \in Nat
      BY <1>4 DEF Dirs!Statuses
    <3>2. Read = [dir[d] EXCEPT !.status = in, !.off = next] /\ in = "INSEARCH" /\ next = off + 1
          /\ S = [path |-> dir[d].opened, at |-> next]
      OBVIOUS
    <3> HIDE DEF in, next, Read, S
    <3> QED BY <1>2, <2>0, <3>1, <3>2 DEF DirRecords, SearchRecords
  <2>4. StreamInOrder(Read, S, given, told[d])
    <3>1. Read.off <= Len(T) /\ Read.off # 0
      BY <1>3, <1>4, <2>1, <2>3
    <3>2. S.path = dir[d].opened /\ S.at = off + 1
      OBVIOUS
    <3> HIDE DEF Read, S
    <3> QED BY <1>1, <1>2, <2>3, <3>1, <3>2 DEF StreamInOrder, Dirs!NoFile
  <2>5. dir' = [dir EXCEPT ![d] = Read] /\ search' = [search EXCEPT ![d] = S]
        /\ seen' = [seen EXCEPT ![d] = given] /\ told' = [told EXCEPT ![d] = told[d]]
    BY <1>1, <1>2, <1>5, <2>2
  <2> HIDE DEF Read, S, given
  <2> QED BY <1>1, <1>2, <2>2, <2>3, <2>4, <2>5, StreamMoves
<1>6. CASE UNCHANGED <<dir, search, seen>>
  BY <1>1, <1>6, DirsStay DEF DirsInv
<1>7. CASE /\ dir[d].status = "STARTSEARCH"
           /\ dir' = [dir EXCEPT ![d].status = "INSEARCH", ![d].off = @ + 1]
           /\ seen' = [seen EXCEPT ![d] = Append(@, Dirs!Found(d, search[d].at))]
           /\ UNCHANGED search
  <2>1. search[d].path = dir[d].opened /\ search[d].at = 1 /\ off = 0
    BY <1>1, <1>2, <1>7 DEF StreamInOrder
  <2>2. search[d] = [path |-> dir[d].opened, at |-> off + 1]
    BY <1>2, <2>1 DEF SearchRecords
  <2>3. dir' = [dir EXCEPT ![d] = Read]
    BY <1>7 DEF DirsInv
  <2>4. seen' = [seen EXCEPT ![d] = Append(seen[d], T[off + 1])]
    <3>1. Tree[search[d].path] = T
      BY <1>1, <1>2, <2>1, EntriesOf DEF SearchRecords
    <3>2. seen' = [seen EXCEPT ![d] = Append(seen[d], Tree[search[d].path][off + 1])]
      BY <1>7, <2>1 DEF Dirs!Found
    <3> QED BY <3>1, <3>2
  <2> HIDE DEF Read
  <2> QED BY <1>2, <1>5, <1>7, <2>2, <2>3, <2>4
<1>8. CASE /\ dir[d].status = "INSEARCH" /\ Dirs!HasNext(d)
           /\ search' = [search EXCEPT ![d].at = @ + 1]
           /\ dir' = [dir EXCEPT ![d].off = @ + 1]
           /\ seen' = [seen EXCEPT ![d] = Append(@, Dirs!Found(d, search[d].at + 1))]
  <2>1. search[d].path = dir[d].opened /\ search[d].at = off
    BY <1>1, <1>2, <1>8 DEF StreamInOrder
  <2>2. search' = [search EXCEPT ![d] = [path |-> dir[d].opened, at |-> off + 1]]
    <3>1. [search[d] EXCEPT !.at = off + 1] = [path |-> dir[d].opened, at |-> off + 1]
      BY <1>2, <2>1 DEF SearchRecords
    <3>2. search' = [search EXCEPT ![d] = [search[d] EXCEPT !.at = off + 1]]
      BY <1>8, <2>1
    <3> QED BY <3>1, <3>2
  <2>3. dir' = [dir EXCEPT ![d] = Read]
    <3>1. Read = [dir[d] EXCEPT !.off = off + 1]
      BY <1>2, <1>8 DEF DirRecords
    <3>2. dir' = [dir EXCEPT ![d] = [dir[d] EXCEPT !.off = off + 1]]
      BY <1>8
    <3> QED BY <3>1, <3>2
  <2>4. seen' = [seen EXCEPT ![d] = Append(seen[d], T[off + 1])]
    <3>1. Tree[search[d].path] = T
      BY <1>1, <1>2, <2>1, EntriesOf DEF SearchRecords
    <3>2. seen' = [seen EXCEPT ![d] = Append(seen[d], Tree[search[d].path][off + 1])]
      BY <1>8, <2>1 DEF Dirs!Found
    <3> QED BY <3>1, <3>2
  <2> HIDE DEF Read
  <2> QED BY <1>5, <1>8, <2>2, <2>3, <2>4
<1>9. CASE /\ dir[d].status = "INSEARCH" /\ ~Dirs!HasNext(d)
           /\ dir' = [dir EXCEPT ![d].status = Dirs!NoFile]
           /\ UNCHANGED <<search, seen>>
  <2> DEFINE D == [dir[d] EXCEPT !.status = Dirs!NoFile]
  <2>1. off = Len(T)
    BY <1>1, <1>2, <1>3, <1>4, <1>9 DEF StreamInOrder, Dirs!HasNext, DirRecords
  <2>2. /\ D \in DirRecords /\ D.opened = dir[d].opened /\ D.dirname = dir[d].dirname
        /\ D.off = off /\ D.status = Dirs!NoFile /\ D.abs = dir[d].abs
    BY <1>2 DEF DirRecords, Dirs!Statuses
  <2>3. dir' = [dir EXCEPT ![d] = D]
    BY <1>9
  <2> HIDE DEF D
  <2>4. StreamInOrder(D, search[d], seen[d], told[d])
    BY <1>1, <1>2, <2>1, <2>2 DEF StreamInOrder, Dirs!NoFile
  <2>5. /\ search' = [search EXCEPT ![d] = search[d]] /\ seen' = [seen EXCEPT ![d] = seen[d]]
        /\ told' = [told EXCEPT ![d] = told[d]]
    BY <1>1, <1>2, <1>9
  <2> QED BY <1>1, <1>2, <2>2, <2>3, <2>4, <2>5, StreamMoves
<1> QED BY <1>6, <1>7, <1>8, <1>9 DEF Dirs!Readdir

LEMMA TelldirKeeps ==
    ASSUME DirsAssumed, DirsInv, NEW d \in Streams, Dirs!Telldir(d)
    PROVE  DirsInv'
<1> DEFINE T == Dirs!Entries(dir[d].opened)
           off == dir[d].off
           place == [pos |-> off, ahead |-> SubSeq(T, Len(seen[d]) + 1, Len(T))]
<1>1. /\ Dirs!DirectoriesAssumption /\ dta' = dta /\ cwd' = cwd
      /\ UNCHANGED <<dir, search, seen>>
      /\ dir[d].status # "closed" /\ told' = [told EXCEPT ![d] = place]
  BY DEF DirsAssumed, Dirs!Telldir
<1>2. /\ dir[d] \in DirRecords /\ search[d] \in SearchRecords
      /\ seen[d] \in Seq(STRING)
      /\ dir = [dir EXCEPT ![d] = dir[d]] /\ search = [search EXCEPT ![d] = search[d]]
      /\ seen = [seen EXCEPT ![d] = seen[d]]
      /\ T \in Seq(STRING)
      /\ StreamInOrder(dir[d], search[d], seen[d], told[d])
  BY <1>1, OneStream
<1>3. off \in Nat /\ off <= Len(T) /\ seen[d] = SubSeq(T, 1, off)
  BY <1>1, <1>2 DEF StreamInOrder, DirRecords
<1>4. Len(seen[d]) = off /\ SubSeq(T, off + 1, Len(T)) \in Seq(STRING)
  <2>1. T \in Seq(STRING) /\ Len(T) \in Nat
    BY <1>2
  <2> HIDE DEF T, off
  <2>2. off \in 0 .. Len(T)
    BY <1>3, <2>1
  <2> QED BY <1>3, <2>1, <2>2, FrontParts
<1>5. place \in ToldRecords /\ place.pos = off /\ place.ahead = SubSeq(T, off + 1, Len(T))
  BY <1>3, <1>4 DEF ToldRecords
<1> HIDE DEF place
<1>6. StreamInOrder(dir[d], search[d], seen[d], place)
  BY <1>1, <1>2, <1>3, <1>5 DEF StreamInOrder
<1>7. dir' = [dir EXCEPT ![d] = dir[d]] /\ search' = [search EXCEPT ![d] = search[d]]
      /\ seen' = [seen EXCEPT ![d] = seen[d]]
  BY <1>1, <1>2
<1> QED BY <1>1, <1>2, <1>5, <1>6, <1>7, StreamMoves

\* rewinddir searches what dirname stands for: of an absolute name, the directory that was
\* opened.
LEMMA RewoundGives ==
    ASSUME DirsAssumed, DirsInv, NEW d \in Streams, dir[d].status # "closed",
           dir[d].dirname # NULL, NEW R, R = Dirs!Rewound(d)
    PROVE  /\ R \in DirRecords
           /\ R.opened = Dirs!Resolve(dir[d].dirname)
           /\ R.dirname = dir[d].dirname /\ R.abs = dir[d].abs
           /\ R.abs => R.opened = dir[d].opened
           /\ R.off = 0
           /\ R.status = IF Dirs!Entries(R.opened) # <<>> THEN "STARTSEARCH" ELSE Dirs!NoFile
<1> DEFINE p == Dirs!Resolve(dir[d].dirname)
           status == IF Dirs!Entries(p) # <<>> THEN "STARTSEARCH" ELSE Dirs!NoFile
           zero == 0
<1>1. /\ dir[d] \in DirRecords /\ StreamInOrder(dir[d], search[d], seen[d], told[d])
      /\ Dirs!DirectoriesAssumption /\ cwd \in Dirs!Folders
  BY OneStream DEF DirsAssumed, DirsInv
<1>2. p \in Places /\ (dir[d].abs => p = dir[d].opened)
  <2>1. dir[d].dirname \in KeptNames
    BY <1>1 DEF DirRecords
  <2>2. dir[d].abs => dir[d].dirname.abs /\ dir[d].dirname.path = dir[d].opened
    BY <1>1 DEF StreamInOrder
  <2> QED BY <1>1, <2>1, <2>2, KeptGives DEF Dirs!Resolve
<1>3. Dirs!FsfirstResult(p) = "found" <=> Dirs!Entries(p) # <<>>
  BY <1>1, EntriesOf
<1>4. R = [dir[d] EXCEPT !.off = zero, !.opened = p, !.status = status]
  BY <1>3 DEF Dirs!Rewound
<1>5. status \in Dirs!Statuses /\ zero \in Nat
  BY DEF Dirs!Statuses
<1>6. status = IF Dirs!Entries(p) # <<>> THEN "STARTSEARCH" ELSE Dirs!NoFile
  OBVIOUS
<1> HIDE DEF status, zero, p
<1>7. /\ R \in DirRecords /\ R.opened = p /\ R.dirname = dir[d].dirname /\ R.abs = dir[d].abs
      /\ R.off = zero /\ R.status = status
  BY <1>1, <1>2, <1>4, <1>5 DEF DirRecords
<1> QED BY <1>2, <1>6, <1>7 DEF p, zero

LEMMA RewinddirKeeps ==
    ASSUME DirsAssumed, DirsInv, NEW d \in Streams, Dirs!Rewinddir(d)
    PROVE  DirsInv'
<1>1. /\ Dirs!DirectoriesAssumption /\ dta' = dta /\ cwd' = cwd /\ told' = told
      /\ dir[d].status # "closed"
  BY DEF DirsAssumed, Dirs!Rewinddir, Dirs!DtaAfter
<1>2. /\ dir[d] \in DirRecords /\ search[d] \in SearchRecords /\ told[d] \in ToldRecords
      /\ search = [search EXCEPT ![d] = search[d]] /\ told = [told EXCEPT ![d] = told[d]]
      /\ StreamInOrder(dir[d], search[d], seen[d], told[d])
  BY <1>1, OneStream DEF DirRecords
<1>3. CASE dir[d].dirname = NULL
  BY <1>1, <1>3, DirsStay DEF DirsInv, Dirs!Rewinddir
<1>4. CASE dir[d].dirname # NULL
  <2> DEFINE D == Dirs!Rewound(d)
             p == D.opened
             T == Dirs!Entries(p)
             S == IF T # <<>> THEN [path |-> p, at |-> 1] ELSE search[d]
             none == <<>>
  <2>1. /\ Dirs!Resolve(dir[d].dirname) = p
        /\ D \in DirRecords /\ D.dirname = dir[d].dirname /\ D.abs = dir[d].abs
        /\ D.abs => p = dir[d].opened
        /\ D.off = 0 /\ D.status = IF T # <<>> THEN "STARTSEARCH" ELSE Dirs!NoFile
    BY <1>1, <1>4, RewoundGives
  <2>0. /\ T \in Seq(STRING) /\ (Dirs!FsfirstResult(p) = "found" <=> T # <<>>)
        /\ T # <<>> => p \in DOMAIN Tree
    BY <1>1, EntriesOf
  <2>2. /\ search' = IF T # <<>> THEN [search EXCEPT ![d] = [path |-> p, at |-> 1]] ELSE search
        /\ dir' = [dir EXCEPT ![d] = D] /\ seen' = [seen EXCEPT ![d] = none]
    <3> HIDE DEF T
    <3>1. dir' = [dir EXCEPT ![d] = D] /\ seen' = [seen EXCEPT ![d] = none]
      BY <1>4 DEF Dirs!Rewinddir
    <3>2. Dirs!Fsfirst(d, p)
      BY <1>4, <2>1 DEF Dirs!Rewinddir
    <3> QED BY <2>0, <3>1, <3>2 DEF Dirs!Fsfirst
  <2>3. search' = [search EXCEPT ![d] = S]
    BY <1>2, <2>2
  <2>4. S \in SearchRecords /\ none \in Seq(STRING)
    BY <1>2, <2>0 DEF SearchRecords
  <2>5. SubSeq(T, 1, 0) = <<>> /\ (T = <<>> => Len(T) = 0) /\ Len(T) \in Nat
    <3> HIDE DEF T
    <3> QED BY <2>0, FrontParts
  <2>6. T # <<>> => S.path = p /\ S.at = 1
    OBVIOUS
  <2>7. told' = [told EXCEPT ![d] = told[d]]
    BY <1>1, <1>2
  <2>8. T = Dirs!Entries(D.opened) /\ none = <<>> /\ p = D.opened
    OBVIOUS
  <2> HIDE DEF D, S, T, p, none
  <2>9. StreamInOrder(D, S, none, told[d])
    BY <1>1, <1>2, <1>4, <2>1, <2>5, <2>6, <2>8 DEF StreamInOrder, Dirs!NoFile
  <2> QED BY <1>1, <1>2, <2>1, <2>2, <2>3, <2>4, <2>7, <2>9, StreamMoves
<1> QED BY <1>3, <1>4

LEMMA ClosedirKeeps ==
    ASSUME DirsAssumed, DirsInv, NEW d \in Streams, Dirs!Closedir(d)
    PROVE  DirsInv'
<1> DEFINE closed == "closed"
           zero == 0
           root == Dirs!Root
           none == <<>>
           yes == TRUE
           D == [status |-> closed, off |-> zero, dirname |-> NULL, opened |-> root, abs |-> yes]
           S == [path |-> root, at |-> zero]
           place == [pos |-> zero, ahead |-> none]
<1>1. /\ Dirs!DirectoriesAssumption /\ dta' = dta /\ cwd' = cwd
      /\ dir' = [dir EXCEPT ![d] = D] /\ search' = [search EXCEPT ![d] = S]
      /\ seen' = [seen EXCEPT ![d] = none] /\ told' = [told EXCEPT ![d] = place]
  BY DEF DirsAssumed, Dirs!Closedir, Dirs!Nothing, Dirs!NoSearch, Dirs!Closed
<1>2. /\ closed \in Dirs!Statuses /\ zero \in Nat /\ root \in DOMAIN Tree /\ none \in Seq(STRING)
      /\ root \in Places /\ yes \in BOOLEAN
  BY <1>1 DEF Dirs!Statuses, Dirs!DirectoriesAssumption, Places
<1>3. StreamInOrder(D, S, none, place)
  BY DEF StreamInOrder
<1> HIDE DEF closed, zero, root, none, yes
<1>4. D \in DirRecords /\ S \in SearchRecords /\ place \in ToldRecords
  BY <1>2 DEF DirRecords, SearchRecords, ToldRecords
<1> HIDE DEF D, S, place
<1> QED BY <1>1, <1>2, <1>3, <1>4, StreamMoves

LEMMA MiddleParts ==
    ASSUME NEW T \in Seq(STRING), NEW off \in 0 .. Len(T), NEW n \in 0 .. Len(T) - off
    PROVE  /\ SubSeq(T, 1, off) \o SubSeq(SubSeq(T, off + 1, Len(T)), 1, n) = SubSeq(T, 1, off + n)
           /\ SubSeq(T, 1, off + n) \in Seq(STRING)
<1> DEFINE front == SubSeq(T, 1, off)
           rest == SubSeq(T, off + 1, Len(T))
           some == SubSeq(rest, 1, n)
           whole == SubSeq(T, 1, off + n)
           both == front \o some
<1>1. front \in Seq(STRING) /\ Len(front) = off /\ \A i \in 1 .. off : front[i] = T[i]
  OBVIOUS
<1>2. rest \in Seq(STRING) /\ Len(rest) = Len(T) - off
      /\ \A i \in 1 .. Len(T) - off : rest[i] = T[off + i]
  OBVIOUS
<1>3. whole \in Seq(STRING) /\ Len(whole) = off + n /\ \A i \in 1 .. off + n : whole[i] = T[i]
  OBVIOUS
<1> HIDE DEF front, rest, whole
<1>4. some \in Seq(STRING) /\ Len(some) = n /\ \A i \in 1 .. n : some[i] = T[off + i]
  BY <1>2
<1> HIDE DEF some
<1>5. both \in Seq(STRING) /\ Len(both) = off + n
  <2>1. off \in Nat /\ n \in Nat
    OBVIOUS
  <2>2. both \in Seq(STRING)
    BY <1>1, <1>4
  <2>3. Len(both) = Len(front) + Len(some)
    <3>1. front \in Seq(STRING) /\ some \in Seq(STRING)
      BY <1>1, <1>4
    <3> QED BY <3>1
  <2> HIDE DEF both
  <2> QED BY <1>1, <1>4, <2>1, <2>2, <2>3
<1>6. \A i \in 1 .. off + n : both[i] = T[i]
  BY <1>1, <1>4
<1> HIDE DEF both
<1>7. both = whole
  BY <1>3, <1>5, <1>6
<1> QED BY <1>3, <1>7 DEF both, some, whole, front, rest

\* seekdir goes on from where the stream starts again, or from where it is (r), by n
\* entries: as many as there are to the place, or fewer when Fsnext fails.
GoesOn(d, pos, r, n) ==
    /\ r.dirname = dir[d].dirname /\ r.abs = dir[d].abs
    /\ r.abs => r.opened = dir[d].opened
    /\ r.status \in {"STARTSEARCH", "INSEARCH", Dirs!NoFile}
    /\ r.off + n <= Len(Dirs!Entries(r.opened))
    /\ r.status = "STARTSEARCH" => r.off = 0 /\ Dirs!Entries(r.opened) # <<>>
    /\ r.status = "INSEARCH" => r.off # 0
    /\ r.status = Dirs!NoFile => r.off = Len(Dirs!Entries(r.opened))
    /\ r.status # Dirs!NoFile => r.opened \in DOMAIN Tree
    /\ dir[d].dirname # NULL => r.off = 0
    /\ seen' = [seen EXCEPT ![d] = SubSeq(Dirs!Entries(r.opened), 1, r.off + n)]
    /\ dir' = [dir EXCEPT ![d] =
         [r EXCEPT !.off = r.off + n,
                   !.status = IF n = Len(Dirs!Entries(r.opened)) - r.off /\ r.off + n # pos
                              THEN Dirs!NoFile
                              ELSE IF n = 0 THEN r.status ELSE "INSEARCH"]]
    /\ search' = IF r.status = Dirs!NoFile THEN search
                 ELSE [search EXCEPT ![d] =
                        [path |-> r.opened, at |-> IF r.off + n = 0 THEN 1 ELSE r.off + n]]
    /\ arrived' = d /\ d # NULL =>
         /\ dir[d].dirname # NULL
         /\ pos \in r.off .. Len(Dirs!Entries(r.opened)) => r.off + n = pos

LEMMA SeekdirGives ==
    ASSUME DirsAssumed, DirsInv, NEW d \in Streams, NEW pos \in Nat, Dirs!Seekdir(d, pos)
    PROVE  \E r \in DirRecords, n \in Nat : GoesOn(d, pos, r, n)
<1> DEFINE back == dir[d].dirname # NULL
           path0 == IF back THEN Dirs!Resolve(dir[d].dirname) ELSE search[d].path
           r == IF back THEN Dirs!Rewound(d) ELSE dir[d]
           p == r.opened
           T == Dirs!Entries(p)
           given == IF back THEN <<>> ELSE seen[d]
           ahead == IF r.status = Dirs!NoFile THEN <<>>
                    ELSE SubSeq(Dirs!Entries(path0), Len(given) + 1, Len(Dirs!Entries(path0)))
           all == Dirs!Steps(r.off, ahead, pos)
<1>1. dir[d].status # "closed" /\ Dirs!DirectoriesAssumption
  BY DEF Dirs!Seekdir, DirsAssumed
<1>2. PICK n \in {all} \cup (IF MayFail THEN 1 .. all - 1 ELSE {}) :
        /\ seen' = [seen EXCEPT ![d] = given \o SubSeq(ahead, 1, n)]
        /\ dir' = [dir EXCEPT ![d] =
             [r EXCEPT !.off = r.off + n,
                       !.status = IF n = Len(ahead) /\ r.off + n # pos THEN Dirs!NoFile
                                  ELSE IF n = 0 THEN r.status ELSE "INSEARCH"]]
        /\ search' = IF r.status = Dirs!NoFile THEN search
                     ELSE [search EXCEPT ![d] =
                            [path |-> path0, at |-> IF r.off + n = 0 THEN 1 ELSE r.off + n]]
        /\ arrived' = IF n = all /\ dir[d].dirname # NULL THEN d ELSE NULL
  BY DEF Dirs!Seekdir
<1>3. /\ dir[d] \in DirRecords /\ search[d] \in SearchRecords /\ T \in Seq(STRING)
      /\ T # <<>> => p \in DOMAIN Tree
      /\ StreamInOrder(dir[d], search[d], seen[d], told[d])
  <2> HIDE DEF p
  <2> QED BY <1>1, OneStream, EntriesOf
<1>4. /\ SubSeq(T, 1, 0) = <<>> /\ Len(T) \in Nat /\ (T = <<>> => Len(T) = 0)
      /\ \A k \in 0 .. Len(T) : Len(SubSeq(T, 1, k)) = k
  <2> HIDE DEF T
  <2> QED BY <1>3, FrontParts
<1>5. /\ r \in DirRecords /\ r.dirname = dir[d].dirname /\ r.abs = dir[d].abs
      /\ r.abs => r.opened = dir[d].opened
      /\ r.status \in {"STARTSEARCH", "INSEARCH", Dirs!NoFile}
      /\ r.off <= Len(T) /\ given = SubSeq(T, 1, r.off)
      /\ r.status = "STARTSEARCH" => r.off = 0 /\ T # <<>>
      /\ r.status = "INSEARCH" => r.off # 0
      /\ r.status = Dirs!NoFile => r.off = Len(T)
      /\ back => r.off = 0
      /\ r.status # Dirs!NoFile => path0 = p /\ p \in DOMAIN Tree
  <2>1. CASE back
    <3>1. /\ path0 = p
          /\ r \in DirRecords /\ r.dirname = dir[d].dirname /\ r.abs = dir[d].abs /\ r.off = 0
          /\ r.abs => r.opened = dir[d].opened
          /\ r.status = IF T # <<>> THEN "STARTSEARCH" ELSE Dirs!NoFile
      BY <1>1, <2>1, RewoundGives
    <3>2. given = <<>>
      BY <2>1
    <3> HIDE DEF r, path0, given, T, p
    <3> QED BY <1>3, <1>4, <2>1, <3>1, <3>2 DEF Dirs!NoFile
  <2>2. CASE ~back
    <3>1. r = dir[d] /\ path0 = search[d].path /\ given = seen[d] /\ p = dir[d].opened
          /\ T = Dirs!Entries(dir[d].opened)
      BY <2>2
    <3>2. dir[d].status # Dirs!NoFile => search[d].path = dir[d].opened /\ search[d].path \in DOMAIN Tree
      BY <1>1, <1>3 DEF StreamInOrder, SearchRecords, DirRecords, Dirs!Statuses, Dirs!NoFile
    <3> HIDE DEF r, path0, given, T, p
    <3> QED BY <1>1, <1>3, <2>2, <3>1, <3>2 DEF StreamInOrder, DirRecords, Dirs!Statuses, Dirs!NoFile
  <2> QED BY <2>1, <2>2
<1> HIDE DEF r, path0, given
<1>6. r.off \in 0 .. Len(T)
  BY <1>4, <1>5 DEF DirRecords
<1>7. ahead = SubSeq(T, r.off + 1, Len(T)) /\ Len(ahead) = Len(T) - r.off
  <2>1. /\ SubSeq(T, r.off + 1, Len(T)) \in Seq(STRING)
        /\ Len(SubSeq(T, r.off + 1, Len(T))) = Len(T) - r.off
    <3> DEFINE k == r.off
    <3>1. k \in 0 .. Len(T)
      BY <1>6
    <3> HIDE DEF k, T
    <3>2. /\ SubSeq(T, k + 1, Len(T)) \in Seq(STRING)
          /\ Len(SubSeq(T, k + 1, Len(T))) = Len(T) - k
      BY <1>3, <3>1, FrontParts
    <3> QED BY <3>2 DEF k
  <2>2. CASE r.status = Dirs!NoFile
    <3> DEFINE rest == SubSeq(T, r.off + 1, Len(T))
    <3>1. rest \in Seq(STRING) /\ Len(rest) = 0
      BY <1>4, <1>5, <2>1, <2>2
    <3> HIDE DEF rest
    <3>2. rest = <<>>
      BY <3>1
    <3>3. ahead = <<>>
      BY <2>2
    <3> QED BY <2>1, <3>2, <3>3 DEF rest
  <2>3. CASE r.status # Dirs!NoFile
    <3>1. Len(given) = r.off /\ path0 = p
      BY <1>4, <1>5, <1>6, <2>3
    <3> QED BY <2>1, <2>3, <3>1
  <2> QED BY <2>2, <2>3
<1> HIDE DEF ahead
<1>8. all \in 0 .. Len(T) - r.off /\ (pos \in r.off .. Len(T) => all = pos - r.off)
  <2> DEFINE k == r.off
             rest == Len(ahead)
  <2>1. k \in 0 .. Len(T) /\ rest = Len(T) - k /\ Len(T) \in Nat
    BY <1>4, <1>6, <1>7
  <2>2. all = IF pos \in k .. k + rest THEN pos - k ELSE rest
    BY DEF Dirs!Steps
  <2> HIDE DEF k, rest, all, T
  <2>3. all \in 0 .. Len(T) - k /\ (pos \in k .. Len(T) => all = pos - k)
    BY <2>1, <2>2
  <2> QED BY <2>3 DEF k
<1> HIDE DEF all
<1>9. n \in 0 .. all /\ n \in Nat
  BY <1>8
<1>10. given \o SubSeq(ahead, 1, n) = SubSeq(T, 1, r.off + n)
  <2> DEFINE k == r.off
  <2>1. k \in 0 .. Len(T) /\ n \in 0 .. Len(T) - k
    BY <1>4, <1>6, <1>8, <1>9
  <2>2. given = SubSeq(T, 1, k) /\ ahead = SubSeq(T, k + 1, Len(T))
    BY <1>5, <1>7
  <2> HIDE DEF k, T
  <2>3. SubSeq(T, 1, k) \o SubSeq(SubSeq(T, k + 1, Len(T)), 1, n) = SubSeq(T, 1, k + n)
    BY <1>3, <2>1, MiddleParts
  <2> QED BY <2>2, <2>3 DEF k
<1>11. r.off + n <= Len(T)
  BY <1>4, <1>6, <1>8, <1>9
<1>12. /\ seen' = [seen EXCEPT ![d] = SubSeq(T, 1, r.off + n)]
       /\ dir' = [dir EXCEPT ![d] =
             [r EXCEPT !.off = r.off + n,
                       !.status = IF n = Len(T) - r.off /\ r.off + n # pos THEN Dirs!NoFile
                                  ELSE IF n = 0 THEN r.status ELSE "INSEARCH"]]
  BY <1>2, <1>7, <1>10
<1>13. search' = IF r.status = Dirs!NoFile THEN search
                 ELSE [search EXCEPT ![d] =
                        [path |-> p, at |-> IF r.off + n = 0 THEN 1 ELSE r.off + n]]
  BY <1>2, <1>5
<1>14. arrived' = d /\ d # NULL => back /\ (pos \in r.off .. Len(T) => r.off + n = pos)
  BY <1>2, <1>4, <1>6, <1>8, <1>9
<1> HIDE DEF T
<1> USE <1>5, <1>9
<1> WITNESS r \in DirRecords, n \in Nat
<1> QED BY <1>5, <1>11, <1>12, <1>13, <1>14 DEF T, GoesOn

LEMMA SeekdirKeeps ==
    ASSUME DirsAssumed, DirsInv, NEW d \in Streams, NEW pos \in Nat, Dirs!Seekdir(d, pos)
    PROVE  DirsInv'
<1>1. /\ Dirs!DirectoriesAssumption /\ dta' = dta /\ cwd' = cwd /\ told' = told
      /\ dir[d].status # "closed"
  BY DEF DirsAssumed, Dirs!Seekdir, Dirs!DtaAfter
<1>2. /\ dir[d] \in DirRecords /\ search[d] \in SearchRecords /\ told[d] \in ToldRecords
      /\ search = [search EXCEPT ![d] = search[d]] /\ told = [told EXCEPT ![d] = told[d]]
      /\ StreamInOrder(dir[d], search[d], seen[d], told[d])
  BY <1>1, OneStream
<1>0. PICK r \in DirRecords, n \in Nat : GoesOn(d, pos, r, n)
  BY SeekdirGives
<1>3. /\ r.dirname = dir[d].dirname /\ r.abs = dir[d].abs
      /\ r.abs => r.opened = dir[d].opened
      /\ r.status # Dirs!NoFile => r.opened \in DOMAIN Tree
      /\ r.status \in {"STARTSEARCH", "INSEARCH", Dirs!NoFile}
      /\ r.off + n <= Len(Dirs!Entries(r.opened))
      /\ r.status = "STARTSEARCH" => r.off = 0 /\ Dirs!Entries(r.opened) # <<>>
      /\ r.status = "INSEARCH" => r.off # 0
      /\ r.status = Dirs!NoFile => r.off = Len(Dirs!Entries(r.opened))
      /\ seen' = [seen EXCEPT ![d] = SubSeq(Dirs!Entries(r.opened), 1, r.off + n)]
      /\ dir' = [dir EXCEPT ![d] =
           [r EXCEPT !.off = r.off + n,
                     !.status = IF n = Len(Dirs!Entries(r.opened)) - r.off /\ r.off + n # pos
                                THEN Dirs!NoFile
                                ELSE IF n = 0 THEN r.status ELSE "INSEARCH"]]
      /\ search' = IF r.status = Dirs!NoFile THEN search
                   ELSE [search EXCEPT ![d] =
                          [path |-> r.opened, at |-> IF r.off + n = 0 THEN 1 ELSE r.off + n]]
  BY <1>0 DEF GoesOn
<1> DEFINE T == Dirs!Entries(r.opened)
           to == r.off + n
           status == IF n = Len(T) - r.off /\ r.off + n # pos THEN Dirs!NoFile
                     ELSE IF n = 0 THEN r.status ELSE "INSEARCH"
           D == [r EXCEPT !.off = to, !.status = status]
           at == IF to = 0 THEN 1 ELSE to
           S == IF r.status = Dirs!NoFile THEN search[d] ELSE [path |-> r.opened, at |-> at]
           given == SubSeq(T, 1, to)
<1>4. /\ T \in Seq(STRING) /\ Len(T) \in Nat /\ r.off \in Nat /\ to \in 0 .. Len(T) /\ at \in Nat
      /\ to \in Nat /\ r \in DirRecords
  <2>1. T \in Seq(STRING)
    BY <1>1, EntriesOf
  <2>2. r.off \in Nat
    BY DEF DirRecords
  <2> HIDE DEF T
  <2>3. Len(T) \in Nat /\ r.off + n <= Len(T)
    BY <1>3, <2>1 DEF T
  <2> QED BY <2>1, <2>2, <2>3
<1>5. given \in Seq(STRING)
  <2> HIDE DEF T, to
  <2> QED BY <1>4, FrontParts
<1>6. /\ status \in {"STARTSEARCH", "INSEARCH", Dirs!NoFile}
      /\ status = Dirs!NoFile => to = Len(T)
      /\ status = "STARTSEARCH" => to = 0 /\ r.status = "STARTSEARCH"
      /\ status = "INSEARCH" => to # 0
      /\ status # Dirs!NoFile => r.status # Dirs!NoFile
  <2> HIDE DEF T
  <2>1. r.status = Dirs!NoFile => r.off = Len(T) /\ n = 0
    BY <1>3, <1>4 DEF T
  <2>2. CASE n = Len(T) - r.off /\ r.off + n # pos
    BY <1>3, <1>4, <2>2 DEF Dirs!NoFile
  <2>3. CASE ~(n = Len(T) - r.off /\ r.off + n # pos) /\ n = 0
    <3>1. status = r.status /\ to = r.off
      BY <1>4, <2>3
    <3> HIDE DEF status, to
    <3> QED BY <1>3, <1>4, <2>1, <3>1 DEF Dirs!NoFile, T
  <2>4. CASE ~(n = Len(T) - r.off /\ r.off + n # pos) /\ n # 0
    BY <1>3, <1>4, <2>1, <2>4 DEF Dirs!NoFile
  <2> QED BY <2>2, <2>3, <2>4
<1>7. status \in Dirs!Statuses
  BY <1>6 DEF Dirs!Statuses
<1>8. seen' = [seen EXCEPT ![d] = given] /\ dir' = [dir EXCEPT ![d] = D]
      /\ search' = [search EXCEPT ![d] = S] /\ told' = [told EXCEPT ![d] = told[d]]
  BY <1>1, <1>2, <1>3
<1> HIDE DEF status, at, to
<1>9. S \in SearchRecords /\ (r.status # Dirs!NoFile => S.path = r.opened /\ S.at = at)
  BY <1>2, <1>3, <1>4 DEF SearchRecords
<1>10. /\ D \in DirRecords /\ D.opened = r.opened /\ D.dirname = r.dirname /\ D.abs = r.abs
       /\ D.off = to /\ D.status = status
  BY <1>4, <1>7 DEF DirRecords
<1>11. at = IF to = 0 THEN 1 ELSE to
  BY DEF at
<1>12. r.status = "STARTSEARCH" => T # <<>>
  BY <1>3
<1> HIDE DEF D, S
<1>13. /\ r.abs = dir[d].abs /\ (r.abs => r.opened = dir[d].opened) /\ r.dirname = dir[d].dirname
       /\ given = SubSeq(Dirs!Entries(r.opened), 1, to)
  BY <1>3
<1> HIDE DEF given
<1>14. StreamInOrder(D, S, given, told[d])
  BY <1>1, <1>2, <1>4, <1>6, <1>9, <1>10, <1>11, <1>12, <1>13 DEF StreamInOrder, Dirs!NoFile
<1> QED BY <1>1, <1>2, <1>5, <1>8, <1>9, <1>10, <1>14, StreamMoves

LEMMA FirstFound ==
    ASSUME DirsAssumed, DirsInv, NEW w \in {Dirs!User, Dirs!Block}, NEW p \in DOMAIN Tree,
           Tree[p] # <<>>, dir' = dir, dta' = dta, cwd' = cwd,
           search' = [search EXCEPT ![w] = [path |-> p, at |-> 1]],
           seen' = [seen EXCEPT ![w] = <<Tree[p][1]>>],
           told' = [told EXCEPT ![w] = [pos |-> 0, ahead |-> Tree[p]]]
    PROVE  DirsInv'
<1> DEFINE T == Tree[p]
           one == 1
           S == [path |-> p, at |-> one]
           given == <<T[1]>>
           zero == 0
           place == [pos |-> zero, ahead |-> T]
<1>1. Dirs!DirectoriesAssumption /\ T \in Seq(STRING) /\ Len(T) \in Nat /\ Len(T) >= 1
  BY DEF DirsAssumed, Dirs!DirectoriesAssumption
<1>2. given \in Seq(STRING) /\ given = SubSeq(T, 1, one)
  BY <1>1
<1>3. one \in 1 .. Len(T)
  BY <1>1
<1>4. S.path = p /\ S.at = one /\ place.ahead = Tree[p]
  OBVIOUS
<1>5. S \in SearchRecords /\ place \in ToldRecords
  BY <1>1 DEF SearchRecords, ToldRecords
<1>6. /\ search' = [search EXCEPT ![w] = S] /\ seen' = [seen EXCEPT ![w] = given]
      /\ told' = [told EXCEPT ![w] = place]
  OBVIOUS
<1> HIDE DEF one, S, given, place
<1>7. ProgramInOrder(S, given, place)
  BY <1>2, <1>3, <1>4 DEF ProgramInOrder
<1> QED BY <1>1, <1>2, <1>5, <1>6, <1>7, ProgramMoves

LEMMA NextFound ==
    ASSUME DirsAssumed, DirsInv, NEW w \in {Dirs!User, Dirs!Block}, seen[w] # <<>>,
           Dirs!HasNext(w), dir' = dir, dta' = dta, cwd' = cwd, told' = told,
           search' = [search EXCEPT ![w].at = @ + 1],
           seen' = [seen EXCEPT ![w] = Append(@, Dirs!Found(w, search[w].at + 1))]
    PROVE  DirsInv'
<1> DEFINE T == Tree[search[w].path]
           at == search[w].at
           S == [search[w] EXCEPT !.at = at + 1]
           given == SubSeq(T, 1, at + 1)
<1>1. Dirs!DirectoriesAssumption
  BY DEF DirsAssumed
<1>2. /\ search[w] \in SearchRecords /\ told[w] \in ToldRecords /\ T \in Seq(STRING)
      /\ told = [told EXCEPT ![w] = told[w]]
      /\ ProgramInOrder(search[w], seen[w], told[w])
  BY <1>1, OneProgram
<1>3. /\ told[w].ahead = T /\ at \in 1 .. Len(T) /\ seen[w] = SubSeq(T, 1, at) /\ Len(T) \in Nat
  BY <1>2 DEF ProgramInOrder
<1>4. at < Len(T)
  BY <1>2, <1>3 DEF Dirs!HasNext, Dirs!Entries, SearchRecords
<1>5. Append(SubSeq(T, 1, at), T[at + 1]) = given /\ given \in Seq(STRING)
  <2>1. at \in 0 .. Len(T) - 1 /\ at + 1 \in 0 .. Len(T)
    BY <1>3, <1>4
  <2> HIDE DEF T, at
  <2> QED BY <1>2, <2>1, FrontParts
<1>6. S \in SearchRecords /\ S.path = search[w].path /\ S.at = at + 1
  <2> DEFINE next == at + 1
  <2>1. next \in Nat
    BY <1>3
  <2> HIDE DEF next
  <2>2. S = [search[w] EXCEPT !.at = next]
    BY DEF next
  <2> HIDE DEF S
  <2>3. S \in SearchRecords /\ S.path = search[w].path /\ S.at = next
    BY <1>2, <2>1, <2>2 DEF SearchRecords
  <2> QED BY <2>3 DEF next
<1>7. /\ search' = [search EXCEPT ![w] = S] /\ seen' = [seen EXCEPT ![w] = given]
      /\ told' = [told EXCEPT ![w] = told[w]]
  BY <1>2, <1>3, <1>5 DEF Dirs!Found
<1>8. at + 1 \in 1 .. Len(T)
  BY <1>3, <1>4
<1> HIDE DEF S, at
<1>9. ProgramInOrder(S, given, told[w])
  BY <1>3, <1>6, <1>8 DEF ProgramInOrder
<1>10. S \in SearchRecords /\ given \in Seq(STRING) /\ told[w] \in ToldRecords
  BY <1>2, <1>5, <1>6
<1> HIDE DEF given
<1> QED BY <1>1, <1>7, <1>9, <1>10, ProgramMoves

LEMMA GiveUpKeeps ==
    ASSUME DirsAssumed, DirsInv, Dirs!GiveUp PROVE DirsInv'
<1> DEFINE U == Dirs!User
           B == Dirs!Block
           none == <<>>
           zero == 0
           root == Dirs!Root
           place == [pos |-> zero, ahead |-> none]
           S == [path |-> root, at |-> zero]
<1>1. /\ dir' = dir /\ dta' = dta /\ cwd' = cwd
      /\ seen' = [seen EXCEPT ![U] = none, ![B] = none]
      /\ told' = [told EXCEPT ![U] = place, ![B] = place]
      /\ search' = [search EXCEPT ![U] = S, ![B] = S]
  BY DEF Dirs!GiveUp, Dirs!Nothing, Dirs!NoSearch
<1>2. /\ none \in Seq(STRING) /\ zero \in Nat /\ root \in DOMAIN Tree
      /\ U \in Dirs!Searches /\ B \in Dirs!Searches /\ U \notin Streams /\ B \notin Streams
      /\ Streams \subseteq Dirs!Searches
      /\ none = <<>>
  BY DEF DirsAssumed, Dirs!DirectoriesAssumption, Dirs!Searches
<1> HIDE DEF U, B, none, zero, root
<1>3. place \in ToldRecords /\ S \in SearchRecords
  BY <1>2 DEF ToldRecords, SearchRecords
<1> HIDE DEF place, S
<1>4. /\ search' \in [Dirs!Searches \cup {Dirs!Stack} -> SearchRecords]
      /\ seen' \in [Dirs!Searches -> Seq(STRING)]
      /\ told' \in [Dirs!Searches -> ToldRecords]
  BY <1>1, <1>2, <1>3 DEF DirsInv
<1>5. ASSUME NEW e \in Streams PROVE StreamInOrder(dir'[e], search'[e], seen'[e], told'[e])
  <2>1. e \in Dirs!Searches /\ e # U /\ e # B
    BY <1>2
  <2>2. dir'[e] = dir[e] /\ search'[e] = search[e] /\ seen'[e] = seen[e] /\ told'[e] = told[e]
    BY <1>1, <2>1 DEF DirsInv
  <2> QED BY <2>2 DEF DirsInv
<1>6. ASSUME NEW v \in {Dirs!User, Dirs!Block} PROVE ProgramInOrder(search'[v], seen'[v], told'[v])
  <2>1. seen'[U] = <<>> /\ seen'[B] = <<>>
    BY <1>1, <1>2 DEF DirsInv
  <2> QED BY <2>1 DEF U, B, ProgramInOrder
<1> QED BY <1>1, <1>4, <1>5, <1>6 DEF DirsInv, StreamInOrder, ProgramInOrder

LEMMA FindfirstKeeps ==
    ASSUME DirsAssumed, DirsInv, NEW p \in DOMAIN Tree, Dirs!findfirst(p) PROVE DirsInv'
<1>1. /\ dir' = dir /\ dta' = dta /\ cwd' = cwd /\ Dirs!Fsfirst(Dirs!Block, p)
      /\ Dirs!DirectoriesAssumption
  BY DEF Dirs!findfirst, Dirs!DtaAfter, DirsAssumed
<1>2. /\ Dirs!FsfirstResult(p) = "found" <=> Tree[p] # <<>>
      /\ search' = IF Dirs!FsfirstResult(p) = "found"
                   THEN [search EXCEPT ![Dirs!Block] = [path |-> p, at |-> 1]] ELSE search
  BY <1>1, FsfirstGives
<1>3. CASE Tree[p] # <<>>
  <2>1. /\ seen' = [seen EXCEPT ![Dirs!Block] = <<Tree[p][1]>>]
        /\ told' = [told EXCEPT ![Dirs!Block] = [pos |-> 0, ahead |-> Tree[p]]]
        /\ search' = [search EXCEPT ![Dirs!Block] = [path |-> p, at |-> 1]]
    BY <1>2, <1>3 DEF Dirs!findfirst
  <2> QED BY <1>1, <1>3, <2>1, FirstFound
<1>4. CASE Tree[p] = <<>>
  <2>1. UNCHANGED <<seen, told, search>>
    BY <1>2, <1>4 DEF Dirs!findfirst
  <2> QED BY <1>1, <2>1, DirsStay DEF DirsInv
<1> QED BY <1>3, <1>4

LEMMA UserFirstKeeps ==
    ASSUME DirsAssumed, DirsInv, NEW p \in DOMAIN Tree, Dirs!UserFirst(p) PROVE DirsInv'
<1>1. /\ dir' = dir /\ dta' = dta /\ cwd' = cwd /\ Dirs!Fsfirst(Dirs!User, p)
      /\ Dirs!DirectoriesAssumption /\ Tree[p] # <<>>
      /\ seen' = [seen EXCEPT ![Dirs!User] = <<Tree[p][1]>>]
      /\ told' = [told EXCEPT ![Dirs!User] = [pos |-> 0, ahead |-> Tree[p]]]
  BY DEF Dirs!UserFirst, DirsAssumed, DirsInv
<1>2. search' = [search EXCEPT ![Dirs!User] = [path |-> p, at |-> 1]]
  BY <1>1, FsfirstGives
<1> QED BY <1>1, <1>2, FirstFound

LEMMA DirsKeep ==
    ASSUME DirsAssumed, DirsInv, Dirs!Next PROVE DirsInv'
<1>1. ASSUME NEW d \in Streams, Dirs!Seekdir(d, told[d].pos) PROVE DirsInv'
  <2> DEFINE pos == told[d].pos
  <2>1. pos \in Nat
    BY OneStream DEF DirsAssumed, ToldRecords
  <2>2. Dirs!Seekdir(d, pos)
    BY <1>1
  <2> HIDE DEF pos
  <2> QED BY <2>1, <2>2, SeekdirKeeps
<1>2. ASSUME NEW d \in Streams, NEW given \in {NULL, "entry"}, Dirs!readdir_r(d, given)
      PROVE  DirsInv'
  <2>1. CASE given # NULL
    BY <1>2, <2>1, ReaddirKeeps DEF Dirs!readdir_r
  <2>2. CASE given = NULL
    BY <1>2, <2>2, DirsStay DEF Dirs!readdir_r, DirsInv
  <2> QED BY <2>1, <2>2
<1>3. ASSUME Dirs!UserNext PROVE DirsInv'
  <2>1. /\ dta = Dirs!User /\ seen[Dirs!User] # <<>> /\ Dirs!HasNext(Dirs!User)
        /\ UNCHANGED <<dir, dta, cwd, told>>
        /\ search' = [search EXCEPT ![Dirs!User].at = @ + 1]
        /\ seen' = [seen EXCEPT ![Dirs!User] =
                     Append(@, Dirs!Found(Dirs!User, search[Dirs!User].at + 1))]
    BY <1>3 DEF Dirs!UserNext, DirsInv
  <2> QED BY <2>1, NextFound
<1>4. ASSUME Dirs!findnext PROVE DirsInv'
  <2>1. seen[Dirs!Block] # <<>> /\ UNCHANGED <<dir, dta, cwd, told>>
    BY <1>4 DEF Dirs!findnext, Dirs!DtaAfter
  <2>2. CASE Dirs!HasNext(Dirs!Block)
    <3>1. /\ search' = [search EXCEPT ![Dirs!Block].at = @ + 1]
          /\ seen' = [seen EXCEPT ![Dirs!Block] =
                       Append(@, Dirs!Found(Dirs!Block, search[Dirs!Block].at + 1))]
      BY <1>4, <2>2 DEF Dirs!findnext
    <3> QED BY <2>1, <2>2, <3>1, NextFound
  <2>3. CASE ~Dirs!HasNext(Dirs!Block)
    <3>1. UNCHANGED <<search, seen>>
      BY <1>4, <2>3 DEF Dirs!findnext
    <3> QED BY <2>1, <3>1, DirsStay DEF DirsInv
  <2> QED BY <2>2, <2>3
<1>5. ASSUME NEW there \in BOOLEAN, Dirs!stat(there) PROVE DirsInv'
  BY <1>5, DirsStay DEF Dirs!stat, Dirs!DtaAfter, DirsInv
<1>6. ASSUME NEW p \in Dirs!Folders, Dirs!Chdir(p) PROVE DirsInv'
  BY <1>6, DirsStay DEF Dirs!Chdir
<1> QED BY <1>1, <1>2, <1>3, <1>4, <1>5, <1>6, OpendirKeeps, ReaddirKeeps, TelldirKeeps,
           RewinddirKeeps, ClosedirKeeps, UserFirstKeeps, GiveUpKeeps, FindfirstKeeps
        DEF Dirs!Next

LEMMA DirsEnough ==
    ASSUME DirsAssumed, DirsInv PROVE Dirs!SearchesInOrder
<1>1. Dirs!DirectoriesAssumption
  BY DEF DirsAssumed
<1>2. Dirs!TypeOK
  <2>1. ASSUME NEW d \in Streams
        PROVE  dir[d].status \in Dirs!Statuses /\ dir[d].off \in Nat
    BY <1>1, OneStream DEF DirRecords
  <2>2. ASSUME NEW w \in Dirs!Searches PROVE search[w].at \in Nat /\ seen[w] \in Seq(STRING)
    BY DEF DirsInv, SearchRecords
  <2> QED BY <2>1, <2>2 DEF Dirs!TypeOK, DirsInv
<1>3. Dirs!EntriesInOrder
  <2>1. ASSUME NEW d \in Streams, dir[d].status # "closed"
        PROVE  /\ Dirs!IsPrefix(seen[d], Dirs!Entries(dir[d].opened))
               /\ dir[d].off = Len(seen[d])
               /\ dir[d].status = Dirs!NoFile => seen[d] = Dirs!Entries(dir[d].opened)
    <3> DEFINE T == Dirs!Entries(dir[d].opened)
               off == dir[d].off
    <3>1. /\ T \in Seq(STRING) /\ off \in Nat /\ off <= Len(T) /\ seen[d] = SubSeq(T, 1, off)
          /\ dir[d].status = Dirs!NoFile => off = Len(T)
      BY <1>1, <2>1, OneStream DEF DirRecords, StreamInOrder
    <3>2. /\ off \in 0 .. Len(T)
      BY <3>1
    <3> HIDE DEF T, off
    <3>3. /\ Dirs!IsPrefix(SubSeq(T, 1, off), T) /\ Len(SubSeq(T, 1, off)) = off
          /\ SubSeq(T, 1, Len(T)) = T
      BY <3>1, <3>2, FrontParts
    <3> QED BY <3>1, <3>3 DEF T, off
  <2> QED BY <2>1 DEF Dirs!EntriesInOrder
<1>4. Dirs!UserSearchInOrder
  <2>1. ASSUME NEW w \in {Dirs!User, Dirs!Block} PROVE Dirs!IsPrefix(seen[w], told[w].ahead)
    <3> DEFINE T == Tree[search[w].path]
               at == search[w].at
    <3>1. /\ T \in Seq(STRING) /\ told[w].ahead \in Seq(STRING)
          /\ seen[w] # <<>> =>
               /\ told[w].ahead = T /\ at \in 1 .. Len(T) /\ seen[w] = SubSeq(T, 1, at)
      BY <1>1, OneProgram DEF ToldRecords, ProgramInOrder
    <3>2. CASE seen[w] # <<>>
      <4>1. at \in 0 .. Len(T)
        BY <3>1, <3>2
      <4> HIDE DEF T, at
      <4> QED BY <3>1, <3>2, <4>1, FrontParts
    <3>3. CASE seen[w] = <<>>
      <4> DEFINE ahead == told[w].ahead
      <4>1. ahead \in Seq(STRING)
        BY <3>1
      <4> HIDE DEF ahead
      <4> DEFINE z == 0
      <4>2. z \in 0 .. Len(ahead)
        BY <4>1
      <4>3. SubSeq(ahead, 1, 0) = <<>>
        BY <4>1, FrontParts
      <4> HIDE DEF z
      <4>4. Dirs!IsPrefix(SubSeq(ahead, 1, z), ahead)
        BY <4>1, <4>2, FrontParts
      <4> QED BY <3>3, <4>3, <4>4 DEF ahead, z
    <3> QED BY <3>2, <3>3
  <2> QED BY <2>1 DEF Dirs!UserSearchInOrder
<1> QED BY <1>2, <1>3, <1>4 DEF Dirs!SearchesInOrder

\* seekdir that arrives has put the stream where telldir was called.
LEMMA SeekdirArrives ==
    ASSUME DirsAssumed, DirsInv, Dirs!Next, NEW d \in Streams, arrived' = d, dir[d].abs
    PROVE  Dirs!LedBack(d)
<1>1. d # NULL /\ Dirs!DirectoriesAssumption
  BY DEF DirsAssumed, Dirs!DirectoriesAssumption
<1>2. PICK e \in Streams : Dirs!Seekdir(e, told[e].pos)
  <2>1. arrived' # NULL
    BY <1>1
  <2>2. UNCHANGED arrived \/ ~\E code : Dirs!Gives(code)
    BY <2>1 DEF Dirs!Gives
  <2> QED BY <2>1 DEF Dirs!Next, Dirs!Gives, Dirs!Opendir, Dirs!Readdir, Dirs!readdir_r,
       Dirs!OpendirSearches, Dirs!Telldir, Dirs!Rewinddir, Dirs!Closedir, Dirs!UserFirst, Dirs!UserNext, Dirs!GiveUp,
       Dirs!findfirst, Dirs!findnext, Dirs!stat, Dirs!Chdir
<1>3. e = d
  BY <1>1, <1>2 DEF Dirs!Seekdir
<1> DEFINE T == Dirs!Entries(dir[d].opened)
           pos == told[d].pos
<1>4. /\ dir[d] \in DirRecords /\ told[d] \in ToldRecords /\ T \in Seq(STRING)
      /\ StreamInOrder(dir[d], search[d], seen[d], told[d])
  BY <1>1, OneStream
<1>5. dir[d].status # "closed"
  BY <1>2, <1>3 DEF Dirs!Seekdir
<1>6. pos \in 0 .. Len(T) /\ told[d].ahead = SubSeq(T, pos + 1, Len(T)) /\ pos \in Nat
  BY <1>4, <1>5 DEF StreamInOrder, ToldRecords
<1>7. PICK r \in DirRecords, n \in Nat : GoesOn(d, pos, r, n)
  <2>1. Dirs!Seekdir(d, pos)
    BY <1>2, <1>3
  <2> HIDE DEF pos
  <2> QED BY <1>6, <2>1, SeekdirGives
<1>8. /\ r.opened = dir[d].opened /\ r.off = 0
      /\ seen' = [seen EXCEPT ![d] = SubSeq(Dirs!Entries(r.opened), 1, r.off + n)]
      /\ pos \in r.off .. Len(Dirs!Entries(r.opened)) => r.off + n = pos
  BY <1>1, <1>7 DEF GoesOn
<1>9. r.off + n = pos
  BY <1>6, <1>8
<1>10. seen'[d] = SubSeq(T, 1, pos)
  BY <1>8, <1>9 DEF DirsInv, Dirs!Searches
<1>11. SubSeq(T, 1, pos) \o SubSeq(T, pos + 1, Len(T)) = T
  <2> HIDE DEF T, pos
  <2> QED BY <1>4, <1>6, FrontParts
<1> QED BY <1>6, <1>10, <1>11 DEF Dirs!LedBack

\* For every tree of directories, all names and every order of calls, with searches of the
\* program's own in between: what a stream has given is the front part of the directory it
\* searches, and so is what findfirst or the program has found; when there is no more, all
\* has been given.  (After rewinddir a stream opened by a relative name may search another
\* directory than the one that was opened, or none.)
THEOREM FilesSearchInOrder == FilesSpec => []SearchesInOrder
<1> DEFINE Inv == used = "directories" => DirsInv
<1>1. DirsAssumed
  BY FilesAssumption DEF DirsAssumed
<1>2. FilesInit => Inv
  BY <1>1, DirsStart DEF FilesInit, DirsAssumed
<1>3. Inv /\ [FilesNext]_fileVars => Inv'
  <2>1. ASSUME Inv, DirStep PROVE Inv'
    BY <1>1, <2>1, DirsKeep DEF DirStep
  <2>2. ASSUME Inv, UNCHANGED used, used # "directories" \/ UNCHANGED dirVars PROVE Inv'
    BY <2>2, DirsStay DEF dirVars, DirsInv
  <2> QED BY <2>1, <2>2 DEF FilesNext, NameStep, HandleStep, DriveStep, fileVars
<1>4. Inv => SearchesInOrder
  BY <1>1, DirsEnough DEF SearchesInOrder
<1> QED BY <1>2, <1>3, <1>4, PTL DEF FilesSpec

\* The last step of filelength, fstat and isatty puts the position back.
LEMMA PlaceKept ==
    ASSUME HandleSteps, Hdl!HandlesNext, op # Hdl!Idle, op' = Hdl!Idle, handle.kind = "file",
           op.pos <= Len(bytes)
    PROVE  handle'.pos = op.pos
<1>1. op'.next = "none" /\ ~Hdl!Free /\ op \in [f : Askers \cup {"none"},
               next : {"none", "one", "end", "first", "again", "magic", "back"},
               pos : Int, size : Int, byte : Hdl!Bytes, w : BOOLEAN, x : BOOLEAN]
  BY DEF Hdl!Idle, Hdl!Free, HandleSteps, HandleInv, HandleTypes
<1>2. ~Hdl!One /\ ~Hdl!End /\ ~Hdl!First /\ ~Hdl!Again /\ ~Hdl!ReadMagic
  BY <1>1 DEF Hdl!One, Hdl!End, Hdl!First, Hdl!Again, Hdl!ReadMagic
<1>3. Hdl!Back
  BY <1>1, <1>2 DEF Hdl!HandlesNext, Hdl!Asking, Hdl!read, Hdl!write, Hdl!lseek, Hdl!close,
     Hdl!getftime, Hdl!Begin, Hdl!OtherChanges
<1>4. op.pos \in Nat /\ HandleTypes /\ Hdl!HandlesAssumption /\ op.next # "none"
      /\ Len(bytes) <= MaxSize /\ Len(bytes) \in Nat /\ MaxSize \in Nat
  BY <1>3 DEF Hdl!Back, HandleSteps, HandleInv, AskingWay, HandleTypes, Hdl!HandlesAssumption
<1> DEFINE pos == op.pos
           r == Hdl!Fseek(pos, "SEEK_SET")
<1>5. pos \in 0 .. Len(bytes) /\ pos \in Int /\ pos \in 0 .. MaxSize
  BY <1>4
<1>6. handle' = Hdl!At(r)
  BY <1>3 DEF Hdl!Back
<1>7. "SEEK_SET" \in Hdl!Whence
  BY DEF Hdl!Whence
<1> HIDE DEF pos
<1>8. r = pos /\ (r \in 0 .. MaxSize => Hdl!At(r).pos = r)
  BY <1>4, <1>5, <1>7, FseekGives
<1> QED BY <1>5, <1>6, <1>8 DEF pos

\* In a stream opened by an absolute name, whatever other names are used besides, seekdir
\* leads back to where telldir was called, as far as malloc and Fsnext allow; and
\* filelength, fstat and isatty put back the position they have found.
THEOREM FilesSeekLeadsBack == FilesSpec => SeekLeadsBack
<1> DEFINE Inv == (used = "directories" => DirsInv) /\ (used = "handle" => HandleInv)
<1>1. DirsAssumed /\ Hdl!HandlesAssumption
  BY FilesAssumption DEF DirsAssumed
<1>2. FilesInit => Inv
  BY <1>1, DirsStart, HandleStart DEF FilesInit, DirsAssumed
<1>3. Inv /\ [FilesNext]_fileVars => Inv'
  <2>1. ASSUME Inv, DirStep PROVE Inv'
    BY <1>1, <2>1, DirsKeep DEF DirStep
  <2>2. ASSUME Inv, HandleStep PROVE Inv'
    <3>1. used = "handle" /\ used' = used /\ HandleSteps /\ Hdl!HandlesNext
      BY <1>1, <2>2 DEF HandleStep, HandleSteps
    <3> QED BY <3>1, HandleKeeps
  <2>3. ASSUME Inv, UNCHANGED used, used # "directories" \/ UNCHANGED dirVars,
               used # "handle" \/ UNCHANGED handleVars
        PROVE Inv'
    <3>1. UNCHANGED handleVars /\ HandleInv => HandleInv'
      BY DEF handleVars, HandleInv, HandleTypes, AskingWay, FoundOut, Hdl!ToldWasTrue, Hdl!Free,
         Hdl!LeavesTheBytes, Hdl!Lengths, Hdl!Executable
    <3>2. UNCHANGED dirVars /\ DirsInv => DirsInv'
      BY DirsStay DEF dirVars, DirsInv
    <3> QED BY <2>3, <3>1, <3>2
  <2> QED BY <2>1, <2>2, <2>3 DEF FilesNext, NameStep, DriveStep, fileVars
<1> DEFINE Arrives == \A d \in Streams : arrived' = d /\ dir[d].abs => Dirs!LedBack(d)
           Keeps == op # Hdl!Idle /\ op' = Hdl!Idle /\ handle.kind = "file" /\ op.pos <= Len(bytes)
                      => handle'.pos = op.pos
<1>4. Inv /\ [FilesNext]_fileVars => [Arrives]_(Dirs!vars)
  <2>1. ASSUME Inv, DirStep PROVE Arrives
    BY <1>1, <2>1, SeekdirArrives DEF DirStep
  <2>2. UNCHANGED dirVars => UNCHANGED Dirs!vars
    BY DEF dirVars, Dirs!vars
  <2> QED BY <2>1, <2>2 DEF FilesNext, NameStep, HandleStep, DriveStep, fileVars
<1>5. Inv /\ [FilesNext]_fileVars => [Keeps]_(Hdl!handleVars)
  <2>1. ASSUME Inv, HandleStep PROVE Keeps
    BY <1>1, <2>1, PlaceKept DEF HandleStep, HandleSteps
  <2>2. UNCHANGED handleVars => UNCHANGED Hdl!handleVars
    BY DEF handleVars, Hdl!handleVars
  <2> QED BY <2>1, <2>2 DEF FilesNext, NameStep, DirStep, DriveStep, fileVars
<1> QED BY <1>2, <1>3, <1>4, <1>5, PTL
        DEF FilesSpec, SeekLeadsBack, Dirs!SeekLeadsBack, Hdl!KeepsPlace
=============================================================================
