------------------------------ MODULE NpmWrapper ------------------------------
(***************************************************************************)
(* The npm launcher, packaging/npm/bin/copilot-datagate.js: it runs the    *)
(* gateway's binary from a cache directory, which the first launch fills   *)
(* by downloading and unpacking a release archive.                         *)
(*                                                                         *)
(* A launch is a process.  Launches share the cache without a lock, so one *)
(* may take any step between two steps of another, and each may be stopped *)
(* at any point, which leaves its files as they are.  A launch that is     *)
(* told where the binary is (COPILOT_DATAGATE_BIN) takes no part.          *)
(*                                                                         *)
(* A file is the set of its parts that are on disk.  The archive holds the *)
(* binary below a directory of its own, so tar writes it to a nested path, *)
(* from where the launch renames it.  tar unlinks what is at that path and *)
(* writes a new file: the one that launch l writes is called l, wherever   *)
(* it is moved while tar still writes it.                                  *)
(*                                                                         *)
(* Definitions whose name starts with Faulty are broken variants of the    *)
(* definition that follows them; no action uses one.                       *)
(***************************************************************************)
EXTENDS Naturals

CONSTANTS
    Launches,    \* the launches
    LastPart,    \* a file has the parts 1..LastPart
    NoFile       \* nothing at the path

ASSUME WrapperAssumption ==
    /\ LastPart \in Nat \ {0}
    /\ NoFile \notin Launches

VARIABLES
    archive,     \* the parts of the archive file that are on disk
    nested,      \* the file at the path that tar unpacks to
    binary,      \* the file at cachedBinaryPath()
    content,     \* content[l]: the parts of the file that l's tar has written
    launch       \* launch[l]: where the launch is

vars == <<archive, nested, binary, content, launch>>

Parts == 1..LastPart

Files == Launches \cup {NoFile}

\* Where a launch can be: what it does next, or how it ended.
UnderWayAt == {"open", "receive", "unpack", "unpacking", "find", "descend",
               "rename", "spawn"}

Ends == {"ran", "ran_broken", "download_failed", "vanished", "unpack_failed",
         "not_found", "rename_failed", "stopped"}

\* `part` counts the parts received or unpacked; `moved` and `alone` are
\* history: the launch has renamed a file, and no other was under way with
\* it, nor had one left a broken binary when it began.
Launch == [pc : {"new"} \cup UnderWayAt \cup Ends, part : 0..LastPart,
           moved : BOOLEAN, alone : BOOLEAN]

NewLaunch == [pc |-> "new", part |-> 0, moved |-> FALSE, alone |-> FALSE]

Init ==
    /\ archive = {}
    /\ nested = NoFile
    /\ binary = NoFile
    /\ content = [l \in Launches |-> {}]
    /\ launch = [l \in Launches |-> NewLaunch]

At(l, pc) == launch[l].pc = pc

Goto(l, pc) == launch' = [launch EXCEPT ![l].pc = pc]

UnderWay(l) == launch[l].pc \in UnderWayAt

Whole(file) == content[file] = Parts

Broken(path) == path # NoFile /\ ~Whole(path)

-----------------------------------------------------------------------------
\* ensureBinary: what is at the path of the binary is taken for it.
Begin(l) ==
    /\ At(l, "new")
    /\ LET lone == ~Broken(binary) /\ \A k \in Launches : ~UnderWay(k)
       IN  launch' = [k \in Launches |->
              IF k = l
              THEN [launch[l] EXCEPT !.pc = IF binary # NoFile THEN "spawn" ELSE "open",
                                     !.alone = lone]
              ELSE IF UnderWay(k) THEN [launch[k] EXCEPT !.alone = FALSE]
              ELSE launch[k]]
    /\ UNCHANGED <<archive, nested, binary, content>>

\* The response is there, and createWriteStream empties the file that every
\* launch downloads to; or the request fails, or its status is not 200.
OpenArchive(l) ==
    /\ At(l, "open")
    /\ \/ archive' = {} /\ Goto(l, "receive")
       \/ Goto(l, "download_failed") /\ UNCHANGED archive
    /\ UNCHANGED <<nested, binary, content>>

\* A part arrives and is written at this launch's own position in the file.
Receive(l) ==
    LET part == launch[l].part + 1
    IN  /\ At(l, "receive")
        /\ part \in Parts
        /\ archive' = archive \cup {part}
        /\ launch' = [launch EXCEPT ![l].part = part]
        /\ UNCHANGED <<nested, binary, content>>

\* The download breaks off.  If the connection does, the response ends without
\* a "finish" of the file, the promise is never settled, and node leaves for
\* want of anything to do; if writing the file fails, the promise is rejected.
Abort(l) ==
    /\ At(l, "receive")
    /\ \E pc \in {"vanished", "download_failed"} : Goto(l, pc)
    /\ UNCHANGED <<archive, nested, binary, content>>

CloseArchive(l) ==
    /\ At(l, "receive")
    /\ launch[l].part = LastPart
    /\ launch' = [launch EXCEPT ![l].pc = "unpack", ![l].part = 0]
    /\ UNCHANGED <<archive, nested, binary, content>>

\* tar leaves a file that exists as it is (-k).
FaultyStartTarKeeps(l) ==
    /\ At(l, "unpack")
    /\ IF 1 \notin archive
       THEN Goto(l, "unpack_failed") /\ UNCHANGED <<nested, content>>
       ELSE IF nested # NoFile THEN Goto(l, "find") /\ UNCHANGED <<nested, content>>
       ELSE /\ nested' = l
            /\ content' = [content EXCEPT ![l] = {1}]
            /\ launch' = [launch EXCEPT ![l].pc = "unpacking", ![l].part = 1]
    /\ UNCHANGED <<archive, binary>>

\* tar unpacks straight to the path that existsSync looks at.
FaultyStartTarInPlace(l) ==
    /\ At(l, "unpack")
    /\ IF 1 \notin archive
       THEN Goto(l, "unpack_failed") /\ UNCHANGED <<binary, content>>
       ELSE /\ binary' = l
            /\ content' = [content EXCEPT ![l] = {1}]
            /\ launch' = [launch EXCEPT ![l].pc = "unpacking", ![l].part = 1]
    /\ UNCHANGED <<archive, nested>>

\* tar is started by execFileSync; it replaces the file at the nested path
\* by a new one and writes what it reads of the archive.
StartTar(l) ==
    /\ At(l, "unpack")
    /\ IF 1 \notin archive
       THEN Goto(l, "unpack_failed") /\ UNCHANGED <<nested, content>>
       ELSE /\ nested' = l
            /\ content' = [content EXCEPT ![l] = {1}]
            /\ launch' = [launch EXCEPT ![l].pc = "unpacking", ![l].part = 1]
    /\ UNCHANGED <<archive, binary>>

\* The next part; tar fails where the archive has been emptied under it.
Unpack(l) ==
    LET part == launch[l].part + 1
    IN  /\ At(l, "unpacking")
        /\ part \in Parts
        /\ IF part \in archive
           THEN /\ content' = [content EXCEPT ![l] = @ \cup {part}]
                /\ launch' = [launch EXCEPT ![l].part = part]
           ELSE /\ Goto(l, "unpack_failed")
                /\ UNCHANGED content
        /\ UNCHANGED <<archive, nested, binary>>

EndTar(l) ==
    /\ At(l, "unpacking")
    /\ launch[l].part = LastPart
    /\ Goto(l, "find")
    /\ UNCHANGED <<archive, nested, binary, content>>

\* findBinary reads the extraction directory, where the binary itself may be
\* by now, and goes into the directories below only after that.
FindAtRoot(l) ==
    /\ At(l, "find")
    /\ Goto(l, IF binary # NoFile THEN "spawn" ELSE "descend")
    /\ UNCHANGED <<archive, nested, binary, content>>

FindNested(l) ==
    /\ At(l, "descend")
    /\ Goto(l, IF nested # NoFile THEN "rename" ELSE "not_found")
    /\ UNCHANGED <<archive, nested, binary, content>>

\* The rename is tried again until there is something to rename.
FaultyRenameWaits(l) ==
    /\ At(l, "rename")
    /\ nested # NoFile
    /\ binary' = nested
    /\ nested' = NoFile
    /\ launch' = [launch EXCEPT ![l].pc = "spawn", ![l].moved = TRUE]
    /\ UNCHANGED <<archive, content>>

\* renameSync: whatever is at the nested path becomes the binary.
Rename(l) ==
    /\ At(l, "rename")
    /\ IF nested = NoFile
       THEN Goto(l, "rename_failed") /\ UNCHANGED <<nested, binary>>
       ELSE /\ binary' = nested
            /\ nested' = NoFile
            /\ launch' = [launch EXCEPT ![l].pc = "spawn", ![l].moved = TRUE]
    /\ UNCHANGED <<archive, content>>

\* chmodSync and spawnSync: a file that is not whole does not run.
Spawn(l) ==
    /\ At(l, "spawn")
    /\ Goto(l, IF Whole(binary) THEN "ran" ELSE "ran_broken")
    /\ UNCHANGED <<archive, nested, binary, content>>

\* The process is interrupted, and a running tar with it, or the machine goes
\* down.
Stop(l) ==
    /\ UnderWay(l)
    /\ Goto(l, "stopped")
    /\ UNCHANGED <<archive, nested, binary, content>>

\* What a launch does without waiting for the network.
LaunchStep(l) ==
    \/ CloseArchive(l) \/ StartTar(l) \/ Unpack(l) \/ EndTar(l)
    \/ FindAtRoot(l) \/ FindNested(l) \/ Rename(l) \/ Spawn(l)

Next ==
    \E l \in Launches : \/ Begin(l) \/ OpenArchive(l) \/ Receive(l) \/ Abort(l)
                        \/ LaunchStep(l) \/ Stop(l)

\* Nothing bounds how long the server takes to answer or to send the archive.
Fairness == \A l \in Launches : WF_vars(LaunchStep(l))

Spec == Init /\ [][Next]_vars /\ Fairness

-----------------------------------------------------------------------------
\* Every variable has its type; a file is at one path at most.
TypeOK ==
    /\ archive \subseteq Parts
    /\ nested \in Files
    /\ binary \in Files
    /\ content \in [Launches -> SUBSET Parts]
    /\ launch \in [Launches -> Launch]
    /\ nested # NoFile => nested # binary

\* A broken binary in the cache, which no later launch would replace, takes two
\* launches: one that was unpacking it, and another that moved it meanwhile. An
\* interrupted launch alone leaves none.
BrokenBinaryTakesTwo ==
    Broken(binary) =>
        /\ launch[binary].pc \in {"unpacking", "unpack_failed", "stopped"}
        /\ \E l \in Launches \ {binary} : launch[l].moved

\* What earlier launches have left in the cache, short of a broken binary, does
\* no harm to a launch that has the cache to itself: it runs the whole binary
\* unless the download fails or it is stopped.
LeftoversDoNoHarm ==
    \A l \in Launches : (launch[l].alone /\ launch[l].pc \in Ends) =>
        launch[l].pc \in {"ran", "download_failed", "vanished", "stopped"}

\* Every launch ends, or waits for the network for ever: launches do not wait
\* for each other, nor for what one of them has left undone.
LaunchEnds ==
    \A l \in Launches :
        UnderWay(l) ~> (launch[l].pc \in Ends \/ [](launch[l].pc \in {"open", "receive"}))
=============================================================================
