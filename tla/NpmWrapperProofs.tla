--------------------------- MODULE NpmWrapperProofs ---------------------------
(***************************************************************************)
(* Proofs about the npm launcher for any number of launches and any file   *)
(* size.                                                                   *)
(*                                                                         *)
(* The invariant says what a launch has written by the place it is at, and *)
(* what is at the paths while a launch has the cache to itself.  A step is *)
(* of one launch that is under way (OneSteps), which rules out that any    *)
(* other is alone; only Begin touches the others.                          *)
(***************************************************************************)
EXTENDS NpmWrapper, TLAPS

USE WrapperAssumption

Stalled == {"unpacking", "unpack_failed", "stopped"}

\* What l has written.
Written(l) ==
    /\ launch[l].pc \in {"new", "open", "receive", "unpack"} => content[l] = {}
    /\ launch[l].pc \in {"new", "open"} => launch[l].part = 0
    /\ launch[l].pc = "unpacking" => content[l] = 1..launch[l].part
    /\ content[l] # {} => launch[l].pc \in Stalled \/ content[l] = Parts

\* Only a file that has been begun is at a path.
Begun(path) == path # NoFile => content[path] # {}

\* A file that is not whole was not moved by the launch that writes it.
MovedByAnother ==
    binary # NoFile => Whole(binary) \/ \E l \in Launches \ {binary} : launch[l].moved

\* What l finds while it is alone, and how it can have ended.
AloneIn(l) ==
    launch[l].alone =>
        /\ launch[l].pc \in Ends =>
              launch[l].pc \in {"ran", "download_failed", "vanished", "stopped"}
        /\ UnderWay(l) =>
              /\ \A k \in Launches \ {l} : ~UnderWay(k)
              /\ IF launch[l].pc = "spawn" THEN binary # NoFile /\ Whole(binary)
                                           ELSE binary = NoFile
              /\ launch[l].pc = "receive" => archive = 1..launch[l].part
              /\ launch[l].pc \in {"unpack", "unpacking"} => archive = Parts
              /\ launch[l].pc \in {"unpacking", "find", "descend", "rename"} => nested = l

Inv ==
    /\ TypeOK
    /\ Begun(nested) /\ Begun(binary)
    /\ MovedByAnother
    /\ \A l \in Launches : Written(l) /\ AloneIn(l)

\* A step of one launch that is under way.
LEMMA OneSteps ==
    ASSUME Inv, NEW l \in Launches, UnderWay(l), NEW h \in Launch,
           launch' = [launch EXCEPT ![l] = h], h.alone = launch[l].alone,
           archive' \subseteq Parts, nested' \in Files, binary' \in Files,
           nested' # NoFile => nested' # binary',
           content' \in [Launches -> SUBSET Parts],
           \A k \in Launches \ {l} : content'[k] = content[k],
           Begun(nested)', Begun(binary)', MovedByAnother', Written(l)', AloneIn(l)'
    PROVE  Inv'
<1>1. /\ launch' \in [Launches -> Launch] /\ \A k \in Launches \ {l} : launch'[k] = launch[k]
  BY DEF Inv, TypeOK
<1>2. TypeOK'
  BY <1>1 DEF TypeOK
<1>3. ASSUME NEW k \in Launches \ {l} PROVE Written(k)' /\ AloneIn(k)'
  <2>1. Written(k) /\ AloneIn(k)
    BY DEF Inv
  <2>2. Written(k)'
    BY <1>1, <1>3, <2>1 DEF Written
  <2>3. ~(launch[k].alone /\ UnderWay(k))
    BY <1>3, <2>1 DEF AloneIn
  <2>4. AloneIn(k)'
    BY <1>1, <1>3, <2>1, <2>3 DEF AloneIn, UnderWay
  <2>5. QED
    BY <2>2, <2>4
<1>4. QED
  BY <1>2, <1>3 DEF Inv

\* What a launch that is under way is, and has to itself when it is alone.
LEMMA LaunchFacts ==
    ASSUME Inv, NEW l \in Launches
    PROVE  /\ launch[l] \in Launch /\ launch[l].part \in Nat /\ launch[l].part <= LastPart
           /\ launch \in [Launches -> Launch] /\ content \in [Launches -> SUBSET Parts]
           /\ Written(l) /\ AloneIn(l)
  BY DEF Inv, TypeOK, Launch

\* A launch that goes to another place, and writes and moves nothing.
LEMMA Goes ==
    ASSUME Inv, NEW l \in Launches, UnderWay(l), NEW pc \in UnderWayAt \cup Ends,
           Goto(l, pc), UNCHANGED <<archive, nested, binary, content>>,
           Written(l)', AloneIn(l)'
    PROVE  Inv'
<1> DEFINE h == [launch[l] EXCEPT !.pc = pc]
<1>1. launch[l] \in Launch /\ launch \in [Launches -> Launch]
  BY LaunchFacts
<1>2. /\ h \in Launch /\ h.alone = launch[l].alone /\ h.moved = launch[l].moved
      /\ launch' = [launch EXCEPT ![l] = h]
  BY <1>1 DEF Launch, Goto
<1>3. \A k \in Launches : launch'[k].moved = launch[k].moved
  BY <1>1, <1>2
<1>4. /\ archive' \subseteq Parts /\ nested' \in Files /\ binary' \in Files
      /\ nested' # NoFile => nested' # binary'
      /\ content' \in [Launches -> SUBSET Parts]
      /\ \A k \in Launches \ {l} : content'[k] = content[k]
      /\ Begun(nested)' /\ Begun(binary)'
  BY DEF Inv, TypeOK, Begun
<1>5. MovedByAnother'
  BY <1>3 DEF Inv, MovedByAnother, Whole
<1>6. QED
  BY ONLY Inv, l \in Launches, UnderWay(l), Written(l)', AloneIn(l)',
     <1>2, <1>4, <1>5, OneSteps

-----------------------------------------------------------------------------
(* The actions.                                                            *)

\* The launches that are under way are no longer alone, nor is this one with
\* them.
LEMMA BeginPreserves ==
    ASSUME Inv, NEW l \in Launches, Begin(l)
    PROVE  Inv'
<1> DEFINE lone == ~Broken(binary) /\ \A k \in Launches : ~UnderWay(k)
           h == [launch[l] EXCEPT !.pc = IF binary # NoFile THEN "spawn" ELSE "open",
                                  !.alone = lone]
<1>1. /\ launch[l].pc = "new" /\ launch[l] \in Launch /\ launch \in [Launches -> Launch]
      /\ UNCHANGED <<archive, nested, binary, content>>
      /\ content[l] = {}
  BY LaunchFacts DEF Begin, At, Written
<1>2. launch' = [k \in Launches |->
                   IF k = l THEN h
                   ELSE IF UnderWay(k) THEN [launch[k] EXCEPT !.alone = FALSE]
                   ELSE launch[k]]
  BY DEF Begin
<1>3. /\ h \in Launch /\ h.pc = IF binary # NoFile THEN "spawn" ELSE "open"
      /\ h.alone = lone /\ h.moved = launch[l].moved
  BY <1>1 DEF Launch, UnderWayAt
<1>4. ASSUME NEW k \in Launches \ {l}
      PROVE  /\ launch'[k] \in Launch /\ launch'[k].pc = launch[k].pc
             /\ launch'[k].part = launch[k].part /\ launch'[k].moved = launch[k].moved
             /\ launch'[k].alone => launch[k].alone /\ ~UnderWay(k)
  <2>1. launch[k] \in Launch /\ (UnderWay(k) \/ ~UnderWay(k))
    BY <1>1
  <2>2. CASE UnderWay(k)
    <3>1. launch'[k] = [launch[k] EXCEPT !.alone = FALSE]
      BY <1>2, <1>4, <2>2
    <3>2. QED
      BY <2>1, <3>1 DEF Launch
  <2>3. CASE ~UnderWay(k)
    <3>1. launch'[k] = launch[k]
      BY <1>2, <1>4, <2>3
    <3>2. CASE launch[k].alone
      BY <2>1, <2>3, <3>1, <3>2
    <3>3. CASE ~launch[k].alone
      BY <2>1, <3>1, <3>3
    <3>4. QED
      BY <3>2, <3>3
  <2>4. QED
    BY <2>1, <2>2, <2>3
<1>5. launch'[l] = h
  BY <1>2
<1>6. TypeOK'
  <2>1. \A k \in Launches : launch'[k] \in Launch
    BY <1>3, <1>4, <1>5
  <2>2. launch' \in [Launches -> Launch]
    BY <1>2, <2>1
  <2>3. QED
    BY <1>1, <2>2 DEF Inv, TypeOK
<1>7. Begun(nested)' /\ Begun(binary)' /\ MovedByAnother'
  <2>1. \A k \in Launches : launch'[k].moved = launch[k].moved
    BY <1>3, <1>4, <1>5
  <2>2. QED
    BY <1>1, <2>1 DEF Inv, Begun, MovedByAnother, Whole
<1>8. ASSUME NEW k \in Launches PROVE Written(k)' /\ AloneIn(k)'
  <2>1. CASE k = l
    <3>1. launch[l].part = 0 /\ h.part = launch[l].part
      BY <1>1, LaunchFacts DEF Written, Launch
    <3>2. Written(l)'
      BY <1>1, <1>3, <1>5, <3>1 DEF Written
    <3>3. ASSUME lone
          PROVE  /\ \A j \in Launches \ {l} : ~UnderWay(j)'
                 /\ binary # NoFile => Whole(binary)
      BY <1>4, <3>3 DEF UnderWay, Broken
    <3>4. h.pc \in {"spawn", "open"} /\ (h.pc = "spawn" <=> binary # NoFile)
      BY <1>3
    <3>5. AloneIn(l)'
      BY <1>1, <1>3, <1>5, <3>3, <3>4 DEF AloneIn, UnderWay, UnderWayAt, Ends, Whole
    <3>6. QED
      BY <2>1, <3>2, <3>5
  <2>2. CASE k # l
    <3>1. Written(k)'
      BY <1>1, <1>4, <2>2, LaunchFacts DEF Written
    <3>2. AloneIn(k)'
      BY <1>1, <1>4, <2>2, LaunchFacts DEF AloneIn, UnderWay
    <3>3. QED
      BY <3>1, <3>2
  <2>3. QED
    BY <2>1, <2>2
<1>9. QED
  BY <1>6, <1>7, <1>8 DEF Inv

\* Being stopped, and the failures that the network alone can cause.
LEMMA StopPreserves ==
    ASSUME Inv, NEW l \in Launches,
           \/ Stop(l)
           \/ Abort(l)
           \/ /\ At(l, "open") /\ Goto(l, "download_failed")
              /\ UNCHANGED <<archive, nested, binary, content>>
    PROVE  Inv'
<1>1. PICK pc \in {"stopped", "vanished", "download_failed"} :
         /\ UnderWay(l) /\ Goto(l, pc) /\ UNCHANGED <<archive, nested, binary, content>>
         /\ pc # "stopped" => content[l] = {}
  BY LaunchFacts DEF Stop, Abort, At, UnderWay, UnderWayAt, Written
<1>2. launch'[l].pc = pc /\ launch'[l].alone = launch[l].alone
  BY <1>1, LaunchFacts DEF Goto, Launch
<1>3. Written(l)'
  BY <1>1, <1>2, LaunchFacts DEF Written, Stalled
<1>4. AloneIn(l)'
  BY <1>2, LaunchFacts DEF AloneIn, UnderWay, UnderWayAt, Ends
<1>5. QED
  BY <1>1, <1>3, <1>4, Goes DEF Ends

\* The download: the archive has the parts received when no other launch
\* empties it.
LEMMA DownloadPreserves ==
    ASSUME Inv, NEW l \in Launches,
           \/ At(l, "open") /\ archive' = {} /\ Goto(l, "receive")
              /\ UNCHANGED <<nested, binary, content>>
           \/ Receive(l)
           \/ CloseArchive(l)
    PROVE  Inv'
<1>1. /\ launch[l] \in Launch /\ launch \in [Launches -> Launch]
      /\ launch[l].pc \in {"open", "receive"} /\ UnderWay(l)
      /\ content[l] = {} /\ UNCHANGED <<nested, binary, content>>
      /\ archive \subseteq Parts
  BY LaunchFacts DEF Receive, CloseArchive, At, UnderWay, UnderWayAt, Written, Inv, TypeOK
<1>2. PICK h \in Launch :
         /\ launch' = [launch EXCEPT ![l] = h]
         /\ h.alone = launch[l].alone /\ h.moved = launch[l].moved
         /\ \/ h.pc = "receive" /\ h.part = launch[l].part /\ archive' = {}
               /\ launch[l].pc = "open"
            \/ h.pc = "receive" /\ h.part = launch[l].part + 1 /\ launch[l].pc = "receive"
               /\ h.part \in Parts /\ archive' = archive \cup {h.part}
            \/ h.pc = "unpack" /\ launch[l].part = LastPart /\ launch[l].pc = "receive"
               /\ archive' = archive
  <2>1. CASE At(l, "open") /\ archive' = {} /\ Goto(l, "receive")
    <3> DEFINE h == [launch[l] EXCEPT !.pc = "receive"]
    <3>1. /\ h \in Launch /\ h.pc = "receive" /\ h.part = launch[l].part
          /\ h.alone = launch[l].alone /\ h.moved = launch[l].moved
      BY <1>1 DEF Launch, UnderWayAt
    <3>2. QED
      BY <1>1, <2>1, <3>1 DEF At, Goto
  <2>2. CASE Receive(l)
    <3> DEFINE h == [launch[l] EXCEPT !.part = launch[l].part + 1]
    <3>1. launch[l].part + 1 \in Parts
      BY <2>2 DEF Receive
    <3>2. launch[l].part + 1 \in 0..LastPart
      BY <3>1 DEF Parts
    <3>3. /\ h \in Launch /\ h.pc = launch[l].pc /\ h.part = launch[l].part + 1
          /\ h.alone = launch[l].alone /\ h.moved = launch[l].moved
      BY <1>1, <3>2 DEF Launch
    <3>4. QED
      BY <1>1, <2>2, <3>1, <3>3 DEF Receive, At
  <2>3. CASE CloseArchive(l)
    <3> DEFINE h == [launch[l] EXCEPT !.pc = "unpack", !.part = 0]
    <3>1. 0 \in 0..LastPart
      OBVIOUS
    <3>2. /\ h \in Launch /\ h.pc = "unpack"
          /\ h.alone = launch[l].alone /\ h.moved = launch[l].moved
      BY <1>1, <3>1 DEF Launch, UnderWayAt
    <3>3. QED
      BY <1>1, <2>3, <3>2 DEF CloseArchive, At
  <2>4. QED
    BY <2>1, <2>2, <2>3
<1>3. archive' \subseteq Parts
  BY <1>1, <1>2
<1>4. Written(l)'
  BY <1>1, <1>2 DEF Written
<1>5. /\ launch'[l] = h /\ \A k \in Launches \ {l} : launch'[k] = launch[k]
      /\ \A k \in Launches : launch'[k].moved = launch[k].moved
  BY <1>1, <1>2
<1>6. AloneIn(l)'
  <2>1. ASSUME launch[l].alone
        PROVE  /\ h.pc = "receive" => archive' = 1..h.part
               /\ h.pc = "unpack" => archive' = Parts
    <3>1. launch[l].pc = "receive" => archive = 1..launch[l].part
      BY <1>1, <2>1, LaunchFacts DEF AloneIn
    <3>2. launch[l].pc = "open" => launch[l].part = 0
      BY LaunchFacts DEF Written
    <3>3. launch[l].part \in Nat
      BY LaunchFacts
    <3>4. 1..0 = {} /\ 1..(launch[l].part + 1) = 1..launch[l].part \cup {launch[l].part + 1}
      BY <3>3
    <3>5. QED
      BY <1>2, <3>1, <3>2, <3>4 DEF Parts
  <2>2. h.alone => /\ \A k \in Launches \ {l} : ~UnderWay(k)
                   /\ binary = NoFile
    BY <1>1, <1>2, LaunchFacts DEF AloneIn
  <2>3. QED
    BY <1>1, <1>2, <1>5, <2>1, <2>2 DEF AloneIn, UnderWay, UnderWayAt, Ends
<1>7. Begun(nested)' /\ Begun(binary)' /\ MovedByAnother'
  BY <1>1, <1>5 DEF Inv, Begun, MovedByAnother, Whole
<1>8. /\ nested' \in Files /\ binary' \in Files /\ content' \in [Launches -> SUBSET Parts]
      /\ nested' # NoFile => nested' # binary'
      /\ \A k \in Launches \ {l} : content'[k] = content[k]
  BY <1>1 DEF Inv, TypeOK
<1>9. QED
  BY ONLY Inv, l \in Launches, <1>1, <1>2, <1>3, <1>4, <1>6, <1>7, <1>8, OneSteps

\* A launch that goes on, having written and moved nothing in the step.
LEMMA GoingOnPreserves ==
    ASSUME Inv, NEW l \in Launches,
           \/ EndTar(l) \/ FindAtRoot(l) \/ FindNested(l) \/ Spawn(l)
           \/ StartTar(l) /\ 1 \notin archive
           \/ Unpack(l) /\ launch[l].part + 1 \notin archive
           \/ Rename(l) /\ nested = NoFile
    PROVE  Inv'
<1>1. /\ launch[l] \in Launch /\ Written(l) /\ AloneIn(l) /\ NoFile # l
      /\ launch[l].part \in Nat
  BY LaunchFacts
<1>2. PICK pc \in UnderWayAt \cup Ends :
         /\ UnderWay(l) /\ Goto(l, pc) /\ UNCHANGED <<archive, nested, binary, content>>
         /\ \/ launch[l].pc = "unpacking" /\ launch[l].part = LastPart /\ pc = "find"
            \/ launch[l].pc = "find" /\ pc = IF binary # NoFile THEN "spawn" ELSE "descend"
            \/ launch[l].pc = "descend" /\ pc = IF nested # NoFile THEN "rename" ELSE "not_found"
            \/ launch[l].pc = "spawn" /\ pc = IF Whole(binary) THEN "ran" ELSE "ran_broken"
            \/ launch[l].pc = "unpack" /\ 1 \notin archive /\ pc = "unpack_failed"
            \/ /\ launch[l].pc = "unpacking" /\ launch[l].part + 1 \in Parts \ archive
               /\ pc = "unpack_failed"
            \/ launch[l].pc = "rename" /\ nested = NoFile /\ pc = "rename_failed"
  BY DEF EndTar, FindAtRoot, FindNested, Spawn, StartTar, Unpack, Rename, At, UnderWay,
     UnderWayAt, Ends
<1>3. launch'[l].pc = pc /\ launch'[l].alone = launch[l].alone
  BY <1>2, LaunchFacts DEF Goto, Launch
<1>4. Written(l)'
  BY <1>1, <1>2, <1>3 DEF Written, Stalled, Parts
<1>5. 1 \in Parts
  BY DEF Parts
<1>6. \A k \in Launches \ {l} : launch'[k] = launch[k]
  BY <1>2, LaunchFacts DEF Goto
<1>7. ASSUME launch[l].alone
      PROVE  /\ pc \in Ends => pc = "ran"
             /\ pc \in UnderWayAt =>
                   /\ pc \in {"find", "descend", "rename"}
                   /\ nested = l /\ binary = NoFile
  BY <1>1, <1>2, <1>5, <1>7 DEF AloneIn, UnderWayAt, Ends, Parts
<1>8. AloneIn(l)'
  <2>1. launch[l].alone => \A k \in Launches \ {l} : ~UnderWay(k)'
    BY <1>1, <1>2, <1>6 DEF AloneIn, UnderWay
  <2>2. QED
    BY <1>2, <1>3, <1>7, <2>1 DEF AloneIn, UnderWay
<1>9. QED
  BY <1>2, <1>4, <1>8, Goes

\* tar writes a file of its own, which is not the binary unless it has been
\* moved before it was whole.
LEMMA TarPreserves ==
    ASSUME Inv, NEW l \in Launches,
           \/ StartTar(l) /\ 1 \in archive
           \/ Unpack(l) /\ launch[l].part + 1 \in archive
    PROVE  Inv'
<1> DEFINE part == IF launch[l].pc = "unpack" THEN 1 ELSE launch[l].part + 1
           h == [launch[l] EXCEPT !.pc = "unpacking", !.part = part]
<1>1. /\ launch[l] \in Launch /\ launch \in [Launches -> Launch] /\ Written(l) /\ AloneIn(l)
      /\ launch[l].part \in Nat /\ content \in [Launches -> SUBSET Parts]
      /\ launch[l].pc \in {"unpack", "unpacking"} /\ UnderWay(l)
      /\ UNCHANGED <<archive, binary>>
  BY LaunchFacts DEF StartTar, Unpack, At, UnderWay, UnderWayAt
<1>2. part \in Parts /\ part \in Nat /\ part >= 1 /\ part \in 0..LastPart
  <2>1. 1 \in Parts
    BY DEF Parts
  <2>2. launch[l].pc = "unpacking" => launch[l].part + 1 \in Parts
    BY DEF StartTar, Unpack, At
  <2>3. part \in Parts
    BY <1>1, <2>1, <2>2
  <2>4. QED
    BY <2>3 DEF Parts
<1>3. launch' = [launch EXCEPT ![l] = h]
  <2>1. CASE StartTar(l)
    <3>1. /\ launch[l].pc = "unpack" /\ 1 \in archive
          /\ launch' = [launch EXCEPT ![l].pc = "unpacking", ![l].part = 1]
      BY <2>1 DEF StartTar, Unpack, At
    <3>2. part = 1
      BY <3>1
    <3>3. QED
      BY <1>1, <3>1, <3>2
  <2>2. CASE Unpack(l)
    <3>1. launch' = [launch EXCEPT ![l].part = part] /\ launch[l].pc = "unpacking"
      BY <1>1, <2>2 DEF Unpack, StartTar, At
    <3>2. [launch[l] EXCEPT !.part = part] = h
      BY <1>1, <3>1 DEF Launch
    <3>3. QED
      BY <1>1, <3>1, <3>2
  <2>3. QED
    BY <2>1, <2>2
<1>4. /\ h \in Launch /\ h.pc = "unpacking" /\ h.part = part
      /\ h.alone = launch[l].alone /\ h.moved = launch[l].moved
  <2>1. "unpacking" \in UnderWayAt
    BY DEF UnderWayAt
  <2>2. QED
    BY ONLY <1>1, <1>2, <2>1 DEF Launch
<1>5. content' = [content EXCEPT ![l] = 1..part]
  <2>1. CASE StartTar(l)
    <3>1. content' = [content EXCEPT ![l] = {1}] /\ part = 1
      BY <1>1, <2>1 DEF StartTar, Unpack, At
    <3>2. 1..1 = {1}
      OBVIOUS
    <3>3. QED
      BY <3>1, <3>2
  <2>2. CASE Unpack(l)
    <3>1. /\ content' = [content EXCEPT ![l] = @ \cup {part}]
          /\ content[l] = 1..launch[l].part /\ part = launch[l].part + 1
      BY <1>1, <2>2 DEF StartTar, Unpack, At, Written
    <3>2. 1..launch[l].part \cup {launch[l].part + 1} = 1..(launch[l].part + 1)
      BY <1>1
    <3>3. QED
      BY <1>1, <3>1, <3>2
  <2>3. QED
    BY <2>1, <2>2
<1>6. /\ content'[l] = 1..part /\ content'[l] # {} /\ 1..part \subseteq Parts
      /\ content' \in [Launches -> SUBSET Parts]
      /\ \A k \in Launches \ {l} : content'[k] = content[k]
  <2>1. 1..part \subseteq Parts /\ 1 \in 1..part
    BY <1>2 DEF Parts
  <2>2. QED
    BY <1>1, <1>5, <2>1
<1>7. nested' = l \/ nested' = nested
  BY DEF StartTar, Unpack
<1>8. nested' = l => binary # l \/ nested = l
  BY <1>1 DEF StartTar, Unpack, At, Written, Inv, Begun
<1>9. /\ nested' \in Files /\ binary' \in Files /\ archive' \subseteq Parts
      /\ nested' # NoFile => nested' # binary'
      /\ Begun(nested)' /\ Begun(binary)'
  BY <1>1, <1>6, <1>7, <1>8 DEF Inv, TypeOK, Files, Begun
<1>10. \A k \in Launches : launch'[k].moved = launch[k].moved
  BY <1>1, <1>3, <1>4
<1>11. content[l] # Parts
  <2>1. LastPart \in Nat \ {0} /\ 1 \in Parts
    BY DEF Parts
  <2>2. CASE launch[l].pc = "unpack"
    BY <1>1, <2>1, <2>2 DEF Written
  <2>3. CASE launch[l].pc = "unpacking"
    <3>1. content[l] = 1..launch[l].part /\ launch[l].part + 1 \in Parts
      BY <1>1, <1>2, <2>3 DEF Written
    <3>2. launch[l].part + 1 \notin 1..launch[l].part
      BY <1>1
    <3>3. QED
      BY <3>1, <3>2
  <2>4. QED
    BY <1>1, <2>2, <2>3
<1>12. MovedByAnother'
  BY <1>1, <1>6, <1>10, <1>11 DEF Inv, TypeOK, Files, MovedByAnother, Whole
<1>13. Written(l)'
  BY <1>1, <1>3, <1>4, <1>6 DEF Written, Stalled
<1>14. AloneIn(l)'
  <2>1. launch'[l] = h /\ \A k \in Launches \ {l} : launch'[k] = launch[k]
    BY <1>1, <1>3
  <2>2. ASSUME launch[l].alone
        PROVE  /\ \A k \in Launches \ {l} : ~UnderWay(k)
               /\ binary = NoFile /\ archive = Parts /\ nested' = l
    BY <1>1, <2>2 DEF AloneIn, StartTar, Unpack, At
  <2>3. QED
    BY <1>1, <1>4, <2>1, <2>2 DEF AloneIn, UnderWay, UnderWayAt, Ends
<1>15. QED
  BY ONLY Inv, l \in Launches, <1>1, <1>3, <1>4, <1>6, <1>9, <1>12, <1>13, <1>14, OneSteps

\* What is moved is whole, or written by another launch.
LEMMA RenamePreserves ==
    ASSUME Inv, NEW l \in Launches, Rename(l), nested # NoFile
    PROVE  Inv'
<1> DEFINE h == [launch[l] EXCEPT !.pc = "spawn", !.moved = TRUE]
<1>1. /\ launch[l] \in Launch /\ launch \in [Launches -> Launch] /\ Written(l) /\ AloneIn(l)
      /\ launch[l].pc = "rename" /\ UnderWay(l)
      /\ UNCHANGED <<archive, content>> /\ binary' = nested /\ nested' = NoFile
      /\ launch' = [launch EXCEPT ![l].pc = "spawn", ![l].moved = TRUE]
  BY LaunchFacts DEF Rename, At, UnderWay, UnderWayAt
<1>2. /\ h \in Launch /\ h.pc = "spawn" /\ h.moved /\ h.alone = launch[l].alone
      /\ launch' = [launch EXCEPT ![l] = h]
  BY <1>1 DEF Launch, UnderWayAt
<1>3. launch'[l] = h /\ \A k \in Launches \ {l} : launch'[k] = launch[k]
  BY <1>1, <1>2
<1>4. nested = l => content[l] = Parts
  BY <1>1 DEF Inv, Begun, Written, Stalled
<1>5. MovedByAnother'
  BY <1>1, <1>2, <1>3, <1>4 DEF MovedByAnother, Whole
<1>6. Written(l)'
  BY <1>1, <1>2, <1>3 DEF Written, Stalled
<1>7. AloneIn(l)'
  BY <1>1, <1>2, <1>3, <1>4 DEF AloneIn, UnderWay, UnderWayAt, Ends, Whole
<1>8. /\ nested' \in Files /\ binary' \in Files /\ archive' \subseteq Parts
      /\ nested' # NoFile => nested' # binary'
      /\ Begun(nested)' /\ Begun(binary)' /\ content' \in [Launches -> SUBSET Parts]
      /\ \A k \in Launches \ {l} : content'[k] = content[k]
  BY <1>1 DEF Inv, TypeOK, Files, Begun
<1>9. QED
  BY ONLY Inv, l \in Launches, <1>1, <1>2, <1>5, <1>6, <1>7, <1>8, OneSteps

-----------------------------------------------------------------------------
(* The invariant holds of every behaviour.                                 *)

\* The cache is empty and nothing is launched.
LEMMA WrapperInit == Init => Inv
<1> SUFFICES ASSUME Init PROVE Inv
  OBVIOUS
<1>1. NewLaunch \in Launch
  <2>1. 0 \in 0..LastPart
    OBVIOUS
  <2>2. QED
    BY <2>1 DEF NewLaunch, Launch
<1>2. TypeOK
  BY <1>1 DEF Init, TypeOK, Files
<1>3. QED
  BY <1>2 DEF Init, Inv, Begun, MovedByAnother, Written, AloneIn, NewLaunch, Ends,
     UnderWay, UnderWayAt

\* Every step of a launch preserves it.
THEOREM WrapperStep == Inv /\ [Next]_vars => Inv'
<1> SUFFICES ASSUME Inv, [Next]_vars PROVE Inv'
  OBVIOUS
<1>1. CASE UNCHANGED vars
  <2>1. UNCHANGED <<archive, nested, binary, content, launch>>
    BY <1>1 DEF vars
  <2>2. TypeOK' /\ Begun(nested)' /\ Begun(binary)' /\ MovedByAnother'
    BY <2>1 DEF Inv, TypeOK, Begun, MovedByAnother, Whole
  <2>3. \A l \in Launches : Written(l)' /\ AloneIn(l)'
    BY <2>1 DEF Inv, Written, AloneIn, UnderWay, Whole
  <2>4. QED
    BY <2>2, <2>3 DEF Inv
<1>2. ASSUME NEW l \in Launches, LaunchStep(l) PROVE Inv'
  BY <1>2, DownloadPreserves, GoingOnPreserves, TarPreserves, RenamePreserves DEF LaunchStep
<1>3. ASSUME NEW l \in Launches, OpenArchive(l) PROVE Inv'
  BY <1>3, DownloadPreserves, StopPreserves DEF OpenArchive
<1>4. QED
  BY <1>1, <1>2, <1>3, BeginPreserves, DownloadPreserves, StopPreserves DEF Next

\* The invariant holds of every behaviour of the launches.
THEOREM WrapperInvariance == Spec => []Inv
  BY WrapperInit, WrapperStep, PTL DEF Spec

\* Every variable has its type, and a file is at one path.
THEOREM WrapperTyped == Spec => []TypeOK
  BY WrapperInvariance, PTL DEF Inv

\* A launch that has the cache to itself is not harmed by what it finds there.
THEOREM NoHarm == Spec => []LeftoversDoNoHarm
<1>1. Inv => LeftoversDoNoHarm
  BY DEF Inv, AloneIn, LeftoversDoNoHarm
<1>2. QED
  BY <1>1, WrapperInvariance, PTL

\* A broken binary was being written by one launch and moved by another.
THEOREM TwoBreakIt == Spec => []BrokenBinaryTakesTwo
<1>1. ASSUME Inv, Broken(binary)
      PROVE  /\ launch[binary].pc \in Stalled
             /\ \E l \in Launches \ {binary} : launch[l].moved
  <2>1. binary \in Launches /\ ~Whole(binary) /\ content[binary] # {}
    BY <1>1 DEF Broken, Inv, TypeOK, Files, Begun
  <2>2. QED
    BY <1>1, <2>1 DEF Inv, Written, MovedByAnother, Whole, Broken
<1>2. Inv => BrokenBinaryTakesTwo
  BY <1>1 DEF BrokenBinaryTakesTwo, Stalled
<1>3. QED
  BY <1>2, WrapperInvariance, PTL
===============================================================================
