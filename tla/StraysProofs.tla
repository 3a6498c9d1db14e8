---------------------------- MODULE StraysProofs ----------------------------
(***************************************************************************)
(* Theorems about Strays: the manager and the hands hand over the field    *)
(* `stray' without a lock and never take one from each other, two hands    *)
(* share a stray only across a refresh, and what a hand proves is on disk.  *)
(***************************************************************************)
EXTENDS Strays, TLAPS

LEMMA InitInv == Init => Inv
BY StraysAssumption DEF Init, Inv, Shape, HandInv, ListInv, SharedOnlyByRefresh,
   DiskInv, OnlyWholeStored, ProvesWhatIsStored, Mgrs, Ats, Contents, Working

\* The steps of a hand with a file are steps of its work on it.
LEMMA ProvingIsWorking ==
    ASSUME Inv, NEW h \in Hands, at[h] \in Working
    PROVE  mine[h] \in Files
BY DEF Inv, Shape, HandInv

\* A step of the manager that leaves list and strays alone.
LEMMA QuietStep ==
    ASSUME Inv,
           \/ Skip \/ Claim \/ Grant \/ ClaimAnswered
           \/ Start \/ Turn \/ Offer \/ Visit \/ EndManager
    PROVE  Inv'
<1>1. UNCHANGED <<list, stray, mine, listed, gone, stored>>
  BY DEF Skip, Claim, Grant, ClaimAnswered, Start, Turn, Offer, Visit, EndManager, hands, world
<1>2. Shape'
  BY <1>1 DEF Inv, Shape, Skip, Claim, Grant, ClaimAnswered, Start, Turn, Offer,
     Visit, EndManager, hands, Mgrs, Ats
<1>3. mgr' = "taking" => next' \in Hands /\ stray'[next'] = NoFile
  BY <1>1 DEF Inv, HandInv, Skip, Claim, Grant, ClaimAnswered, Start, Turn, Offer, Visit,
     EndManager
<1>4. \A h \in Hands : at'[h] \in Working => at[h] \in Working
  BY DEF Skip, Claim, Grant, ClaimAnswered, Start, Turn, Offer, Visit, EndManager, hands, Working
<1>5. HandInv'
  BY <1>1, <1>3, <1>4 DEF Inv, HandInv
<1>6. (ListInv /\ SharedOnlyByRefresh /\ DiskInv)'
  <2>1. \A h \in Hands : at'[h] \in {"loading", "posting", "waiting"} =>
            at[h] \in {"loading", "posting", "waiting"}
    BY DEF Skip, Claim, Grant, ClaimAnswered, Start, Turn, Offer, Visit, EndManager, hands
  <2> QED  BY <1>1, <2>1 DEF Inv, ListInv, SharedOnlyByRefresh, DiskInv, OnlyWholeStored,
              ProvesWhatIsStored
<1> QED  BY <1>2, <1>5, <1>6 DEF Inv

\* The list is replaced: every hand with a stray now has an older one.
LEMMA RefreshStep ==
    ASSUME Inv, NEW page \in Pages, RefreshList(page)
    PROVE  Inv'
<1>1. page \in Seq(Files) /\ \A i, j \in DOMAIN page : page[i] = page[j] => i = j
  BY DEF Pages
<1>2. \A i \in DOMAIN page : page[i] # NoFile
  BY <1>1, StraysAssumption
<1>3. ListInv'
  BY <1>1, <1>2 DEF Inv, ListInv, RefreshList
<1>4. Shape'
  BY DEF Inv, Shape, RefreshList, world, Mgrs
<1>5. (HandInv /\ SharedOnlyByRefresh /\ DiskInv)'
  BY DEF Inv, HandInv, SharedOnlyByRefresh, DiskInv, OnlyWholeStored, ProvesWhatIsStored,
     RefreshList, world
<1> QED  BY <1>3, <1>4, <1>5 DEF Inv

\* A hand without a stray gets the first of the list.
LEMMA TakeStep ==
    ASSUME Inv, Take
    PROVE  Inv' /\ \A h \in Hands : stray[h] # NoFile => stray'[h] = stray[h]
<1>1. next \in Hands /\ stray[next] = NoFile /\ at[next] \notin Working
  BY DEF Inv, HandInv, Take
<1>2. UNCHANGED <<at, mine, gone, stored>>
  BY DEF Take, world
<1>5. DiskInv'
  BY <1>2 DEF Inv, DiskInv, OnlyWholeStored, ProvesWhatIsStored
<1>3. CASE list = <<>>
  <2>1. UNCHANGED <<stray, list>>
    BY <1>1, <1>3 DEF Take, Rest, Inv, Shape
  <2>2. Shape' /\ HandInv'
    BY <1>1, <1>2, <2>1 DEF Inv, Shape, HandInv, Take, Mgrs
  <2>3. ListInv'
    BY <1>3, <2>1 DEF Inv, ListInv
  <2>4. \A h \in Hands \ {next} : listed'[h] = listed[h]
    BY DEF Take, Inv, Shape
  <2>5. SharedOnlyByRefresh'
    BY <1>1, <1>2, <2>1, <2>4 DEF Inv, SharedOnlyByRefresh
  <2> QED  BY <1>5, <2>1, <2>2, <2>3, <2>5 DEF Inv
<1>4. CASE list # <<>>
  <2>1. list \in Seq(Files) /\ Head(list) = list[1] /\ Head(list) \in Files
    BY <1>4 DEF Inv, ListInv
  <2>2. /\ list' = Tail(list)
        /\ list' \in Seq(Files)
        /\ \A i \in DOMAIN list' : i + 1 \in DOMAIN list /\ i + 1 # 1 /\ list'[i] = list[i + 1]
    BY <1>4, <2>1 DEF Take, Rest
  <2>3. /\ stray' = [stray EXCEPT ![next] = list[1]]
        /\ listed' = [listed EXCEPT ![next] = FALSE]
        /\ 1 \in DOMAIN list
    BY <1>4, <2>1 DEF Take
  <2>4. \A h \in Hands \ {next} : stray'[h] = stray[h] /\ listed'[h] = listed[h]
    BY <2>3 DEF Inv, Shape
  <2>5. stray'[next] = list[1]
    BY <1>1, <2>3 DEF Inv, Shape
  <2>6. Shape'
    BY <1>1, <1>2, <2>1, <2>3 DEF Inv, Shape, Take, Mgrs
  <2>7. HandInv'
    BY <1>1, <1>2, <2>4 DEF Inv, HandInv, Take
  <2>8. \A i, j \in DOMAIN list' : list'[i] = list'[j] => i = j
    <3> SUFFICES ASSUME NEW i \in DOMAIN list', NEW j \in DOMAIN list', list'[i] = list'[j]
                 PROVE  i = j
      OBVIOUS
    <3>1. i \in Nat /\ j \in Nat
      BY <2>2
    <3>2. i + 1 = j + 1
      BY <2>2 DEF Inv, ListInv
    <3> QED  BY <3>1, <3>2
  <2>9. \A h \in Hands : \A i \in DOMAIN list' : stray'[h] = list'[i] => listed'[h]
    <3> SUFFICES ASSUME NEW h \in Hands, NEW i \in DOMAIN list', stray'[h] = list'[i]
                 PROVE  listed'[h]
      OBVIOUS
    <3>1. CASE h = next
      BY <3>1, <2>2, <2>3, <2>5 DEF Inv, ListInv
    <3>2. CASE h # next
      BY <3>2, <2>2, <2>4 DEF Inv, ListInv
    <3> QED  BY <3>1, <3>2
  <2>10. \A g \in Hands \ {next} : stray[g] = list[1] => listed[g]
    BY <2>3 DEF Inv, ListInv
  <2>11. SharedOnlyByRefresh'
    BY <2>4, <2>5, <2>10 DEF Inv, SharedOnlyByRefresh
  <2> QED  BY <1>1, <1>5, <2>2, <2>4, <2>6, <2>7, <2>8, <2>9, <2>11 DEF Inv, ListInv
<1> QED  BY <1>3, <1>4

\* A hand gives up its stray, or is done with it.
LEMMA FinishStep ==
    ASSUME Inv, NEW h \in Hands, at[h] \in Working, Finish(h), UNCHANGED stored
    PROVE  Inv'
<1>1. UNCHANGED <<mgr, next, list>>
  BY DEF Finish, manager
<1>2. \A g \in Hands \ {h} : /\ stray'[g] = stray[g] /\ listed'[g] = listed[g]
                            /\ mine'[g] = mine[g] /\ at'[g] = at[g]
  BY DEF Finish, Goto, Inv, Shape
<1>3. stray'[h] = NoFile /\ at'[h] = "looking"
  BY DEF Finish, Goto, Inv, Shape
<1>4. Shape'
  BY <1>1 DEF Inv, Shape, Finish, Goto, Ats
<1>5. HandInv'
  BY <1>1, <1>2, <1>3 DEF Inv, HandInv, Working
<1>6. ListInv'
  <2>1. \A i \in DOMAIN list : list[i] # NoFile
    BY StraysAssumption DEF Inv, ListInv
  <2> QED  BY <1>1, <1>2, <1>3, <2>1 DEF Inv, ListInv
<1>7. SharedOnlyByRefresh'
  BY <1>2, <1>3 DEF Inv, SharedOnlyByRefresh
<1>8. DiskInv'
  <2>1. \A g \in Hands : at'[g] \in {"loading", "posting", "waiting"} =>
            g # h /\ at'[g] = at[g] /\ mine'[g] = mine[g] /\ (g \in gone => g \in gone')
    BY <1>2, <1>3 DEF Finish
  <2> QED  BY <2>1 DEF Inv, DiskInv, OnlyWholeStored, ProvesWhatIsStored
<1> QED  BY <1>4, <1>5, <1>6, <1>7, <1>8 DEF Inv

\* A step in which no hand takes up or gives up a stray.
LEMMA WorkStep ==
    ASSUME Inv, NEW h \in Hands,
           UNCHANGED <<mgr, next, list, stray, mine, listed>>,
           NEW place \in Ats, Goto(h, place),
           place \in Working => at[h] \in Working,
           Shape', DiskInv'
    PROVE  Inv'
<1>1. \A g \in Hands : at'[g] \in Working => at[g] \in Working
  BY DEF Goto, Inv, Shape
<1>2. HandInv' /\ ListInv' /\ SharedOnlyByRefresh'
  BY <1>1 DEF Inv, HandInv, ListInv, SharedOnlyByRefresh
<1> QED  BY <1>2 DEF Inv

\* A hand writes what it has downloaded.
LEMMA WriteStep ==
    ASSUME Inv, NEW h \in Hands, WriteFile(h)
    PROVE  Inv'
<1>1. UNCHANGED <<mgr, next, list, stray, mine, listed, gone>> /\ at[h] = "writing"
  BY DEF WriteFile, manager
<1>2. mine[h] \in Files
  BY <1>1, ProvingIsWorking DEF Working
<1>3. /\ stored' \in [Files -> Contents]
      /\ \A f \in Files : stored'[f] = stored[f] \/ stored'[f] = "whole"
  BY <1>2 DEF Inv, Shape, WriteFile, Matches, Contents
<1>4. \/ Goto(h, "choosing")
      \/ Goto(h, "loading") /\ stored'[mine[h]] = "whole"
  BY <1>2 DEF Inv, Shape, WriteFile, Matches
<1>5. PICK place \in {"choosing", "loading"} :
          Goto(h, place) /\ (place = "loading" => stored'[mine[h]] = "whole")
  BY <1>4
<1>6. Shape'
  BY <1>1, <1>3, <1>5 DEF Inv, Shape, Goto, Ats
<1>7. OnlyWholeStored'
  BY <1>3 DEF Inv, Shape, DiskInv, OnlyWholeStored
<1>8. ProvesWhatIsStored'
  <2> SUFFICES ASSUME NEW g \in Hands, at'[g] \in {"loading", "posting", "waiting"}
               PROVE  stored'[mine[g]] = "whole" \/ g \in gone
    BY <1>1 DEF ProvesWhatIsStored
  <2>1. CASE g = h
    BY <1>5, <2>1 DEF Goto, Inv, Shape
  <2>2. CASE g # h
    <3>1. at[g] \in {"loading", "posting", "waiting"}
      BY <1>5, <2>2 DEF Goto, Inv, Shape
    <3>2. mine[g] \in Files
      BY <3>1, ProvingIsWorking DEF Working
    <3> QED  BY <1>3, <3>1, <3>2 DEF Inv, DiskInv, ProvesWhatIsStored
  <2> QED  BY <2>1, <2>2
<1> QED  BY <1>1, <1>5, <1>6, <1>7, <1>8, WorkStep DEF Ats, Working, DiskInv

\* A hand that comes to the proof without a download has found the file on disk.
LEMMA FoundOnDisk ==
    ASSUME Inv, NEW h \in Hands,
           \/ StartHand(h) \/ Loop(h) \/ Look(h) \/ Request(h) \/ Select(h)
           \/ (CheckTree(h) \/ FindFile(h) \/ LoadFile(h) \/ Post(h)) /\ ~Finish(h)
    PROVE  /\ \A g \in Hands \ {h} : at'[g] = at[g] /\ mine'[g] = mine[g]
           /\ at'[h] \in {"loading", "posting", "waiting"} =>
                 mine'[h] = mine[h] /\ (stored[mine[h]] = "whole" \/ h \in gone)
<1>1. \A g \in Hands \ {h} : at'[g] = at[g] /\ mine'[g] = mine[g]
  BY DEF StartHand, Loop, Look, Request, Select, CheckTree, FindFile, LoadFile, Post, Goto,
     Inv, Shape
<1>2. CASE StartHand(h) \/ Loop(h) \/ Look(h) \/ Request(h) \/ Select(h)
  <2>1. at'[h] \notin {"loading", "posting", "waiting"}
    BY <1>2 DEF StartHand, Loop, Look, Request, Select, Goto, Inv, Shape
  <2> QED  BY <1>1, <2>1
<1>3. CASE CheckTree(h) /\ ~Finish(h)
  <2>1. /\ at' = [at EXCEPT ![h] = IF stored[mine[h]] = "none" THEN "finding" ELSE "loading"]
        /\ mine' = mine /\ at[h] = "checking"
    BY <1>3 DEF CheckTree, Goto
  <2>2. mine[h] \in Files
    BY <2>1, ProvingIsWorking DEF Working
  <2>3. stored[mine[h]] = "none" \/ stored[mine[h]] = "whole"
    BY <2>2 DEF Inv, Shape, DiskInv, OnlyWholeStored, Contents
  <2> QED  BY <1>1, <2>1, <2>3 DEF Inv, Shape
<1>4. CASE FindFile(h) /\ ~Finish(h)
  BY <1>1, <1>4 DEF FindFile, Goto, Inv, Shape
<1>5. CASE (LoadFile(h) \/ Post(h)) /\ ~Finish(h)
  <2>1. mine' = mine /\ at[h] \in {"loading", "posting"}
    BY <1>5 DEF LoadFile, Post
  <2> QED  BY <1>1, <2>1 DEF Inv, DiskInv, ProvesWhatIsStored
<1> QED  BY <1>2, <1>3, <1>4, <1>5

\* The other steps of a hand that keep its stray.
LEMMA KeepStep ==
    ASSUME Inv, NEW h \in Hands,
           \/ StartHand(h) \/ Loop(h) \/ Look(h) \/ Request(h) \/ Select(h)
           \/ (CheckTree(h) \/ FindFile(h) \/ LoadFile(h) \/ Post(h)) /\ ~Finish(h)
    PROVE  Inv' /\ UNCHANGED stray
<1>1. UNCHANGED <<mgr, next, list, stray, listed, gone, stored>>
  BY DEF StartHand, Loop, Look, Request, Select, CheckTree, FindFile, LoadFile, Post,
     manager, world
<1>2. DiskInv'
  BY <1>1, FoundOnDisk DEF Inv, DiskInv, OnlyWholeStored, ProvesWhatIsStored
<1>3. CASE Look(h)
  <2>1. /\ mine' = [mine EXCEPT ![h] = stray[h]]
        /\ at' = [at EXCEPT ![h] = IF stray[h] = NoFile THEN "looking" ELSE "checking"]
    BY <1>3 DEF Look, Goto
  <2>2. Shape' /\ HandInv'
    BY <1>1, <2>1 DEF Inv, Shape, HandInv, Ats, Working
  <2>3. ListInv' /\ SharedOnlyByRefresh'
    BY <1>1 DEF Inv, ListInv, SharedOnlyByRefresh
  <2> QED  BY <1>1, <1>2, <2>2, <2>3 DEF Inv
<1>4. CASE ~Look(h)
  <2>1. mine' = mine
    BY <1>4 DEF StartHand, Loop, Request, Select, CheckTree, FindFile, LoadFile, Post
  <2>2. PICK place \in Ats : Goto(h, place) /\ (place \in Working => at[h] \in Working)
    <3>1. CASE StartHand(h) \/ Loop(h)
      <4>1. \E p \in {"looking", "peeking", "ended"} : Goto(h, p)
        BY <3>1 DEF StartHand, Loop
      <4> QED  BY <4>1 DEF Ats, Working
    <3>2. CASE Request(h)
      <4>1. at[h] = "choosing" /\ (Goto(h, "choosing") \/ Goto(h, "copying"))
        BY <3>2 DEF Request, Goto, Inv, Shape
      <4> QED  BY <4>1 DEF Ats, Working
    <3>3. CASE Select(h)
      <4>1. at[h] = "copying" /\ (Goto(h, "choosing") \/ Goto(h, "writing"))
        BY <3>3 DEF Select
      <4> QED  BY <4>1 DEF Ats, Working
    <3>4. CASE (CheckTree(h) \/ FindFile(h) \/ LoadFile(h) \/ Post(h)) /\ ~Finish(h)
      <4>1. /\ at[h] \in Working
            /\ \E p \in {"finding", "loading", "choosing", "posting", "waiting"} : Goto(h, p)
        BY <3>4 DEF CheckTree, FindFile, LoadFile, Post, Working
      <4> QED  BY <4>1 DEF Ats, Working
    <3> QED  BY <1>4, <3>1, <3>2, <3>3, <3>4
  <2>3. Shape'
    BY <1>1, <2>1, <2>2 DEF Inv, Shape, Goto
  <2> QED  BY <1>1, <1>2, <2>1, <2>2, <2>3, WorkStep
<1> QED  BY <1>3, <1>4

\* A stray that a step changes is one that its hand is done with.
KeptBy(h) == stray[h] # NoFile /\ stray'[h] # stray[h] =>
                mine[h] = stray[h] /\ stray'[h] = NoFile

\* A step of a hand keeps the invariant and the strays of all hands.
LEMMA HandStep ==
    ASSUME Inv, NEW h \in Hands, Hand(h)
    PROVE  Inv' /\ \A g \in Hands : KeptBy(g)
<1>1. CASE \/ StartHand(h) \/ Loop(h) \/ Look(h) \/ Request(h) \/ Select(h)
           \/ (CheckTree(h) \/ FindFile(h) \/ LoadFile(h) \/ Post(h)) /\ ~Finish(h)
  BY <1>1, KeepStep DEF KeptBy
<1>2. CASE WriteFile(h)
  BY <1>2, WriteStep DEF KeptBy, WriteFile
<1>3. CASE \/ NotFound(h) \/ ProofAnswered(h)
           \/ (CheckTree(h) \/ FindFile(h) \/ LoadFile(h) \/ Post(h)) /\ Finish(h)
  <2>1. Finish(h) /\ at[h] \in Working /\ UNCHANGED stored
    BY <1>3 DEF NotFound, ProofAnswered, CheckTree, FindFile, LoadFile, Post, Working, world
  <2>2. stray' = [stray EXCEPT ![h] = NoFile] /\ mine[h] = stray[h]
    BY <2>1 DEF Finish, Inv, HandInv, Working
  <2>3. \A g \in Hands : KeptBy(g)
    BY <2>2 DEF KeptBy, Inv, Shape
  <2> QED  BY <2>1, <2>3, FinishStep
<1> QED  BY <1>1, <1>2, <1>3 DEF Hand

\* Every step keeps the invariant and the strays.
LEMMA NextInv ==
    ASSUME Inv, [Next]_vars
    PROVE  Inv' /\ \A g \in Hands : KeptBy(g)
<1>1. CASE Manager
  <2>1. CASE Take
    BY <2>1, TakeStep DEF KeptBy
  <2>2. CASE \/ Skip \/ Claim \/ Grant \/ ClaimAnswered
             \/ Start \/ Turn \/ Offer \/ Visit \/ EndManager
    <3>1. stray' = stray
      BY <2>2 DEF Skip, Claim, Grant, ClaimAnswered, Start, Turn, Offer, Visit, EndManager, hands
    <3> QED  BY <2>2, <3>1, QuietStep DEF KeptBy
  <2> QED  BY <1>1, <2>1, <2>2 DEF Manager
<1>2. ASSUME NEW page \in Pages, RefreshList(page)
      PROVE  Inv' /\ \A g \in Hands : KeptBy(g)
  BY <1>2, RefreshStep DEF RefreshList, KeptBy
<1>3. ASSUME NEW h \in Hands, Hand(h)
      PROVE  Inv' /\ \A g \in Hands : KeptBy(g)
  BY <1>3, HandStep
<1>4. CASE Stop \/ TakeBatch \/ Answer \/ (\E h \in Hands : CopyEnds(h)) \/ UNCHANGED vars
  <2>1. UNCHANGED <<mgr, next, list, at, stray, mine, listed, gone, stored>>
    BY <1>4 DEF Stop, TakeBatch, Answer, CopyEnds, vars, manager, hands, world
  <2>2. Shape' /\ HandInv'
    BY <2>1 DEF Inv, Shape, HandInv
  <2>3. ListInv' /\ SharedOnlyByRefresh' /\ DiskInv'
    BY <2>1 DEF Inv, ListInv, SharedOnlyByRefresh, DiskInv, OnlyWholeStored, ProvesWhatIsStored
  <2> QED  BY <2>1, <2>2, <2>3 DEF Inv, KeptBy
<1>5. ASSUME NEW f \in Files, DeleteFile(f)
      PROVE  Inv' /\ \A g \in Hands : KeptBy(g)
  <2>1. UNCHANGED <<mgr, next, list, at, stray, mine, listed>>
    BY <1>5 DEF DeleteFile, manager, hands
  <2>2. Shape' /\ DiskInv'
    <3>1. Shape' /\ OnlyWholeStored'
      BY <1>5, <2>1 DEF Inv, Shape, DiskInv, OnlyWholeStored, DeleteFile, Contents
    <3>2. \A h \in Hands : \/ h \in gone'
                           \/ h \notin gone /\ mine[h] # f
      BY <1>5 DEF DeleteFile
    <3>3. \A g \in Files \ {f} : stored'[g] = stored[g]
      BY <1>5 DEF DeleteFile, Inv, Shape
    <3>4. ProvesWhatIsStored'
      <4> SUFFICES ASSUME NEW h \in Hands, at'[h] \in {"loading", "posting", "waiting"},
                          h \notin gone'
                   PROVE  stored'[mine'[h]] = "whole"
        BY DEF ProvesWhatIsStored
      <4>1. mine[h] \in Files \ {f}
        BY <2>1, <3>2, ProvingIsWorking DEF Working
      <4> QED  BY <2>1, <3>2, <3>3, <4>1 DEF Inv, DiskInv, ProvesWhatIsStored
    <3> QED  BY <3>1, <3>4 DEF DiskInv
  <2>3. HandInv' /\ ListInv' /\ SharedOnlyByRefresh'
    BY <2>1 DEF Inv, HandInv, ListInv, SharedOnlyByRefresh
  <2> QED  BY <2>1, <2>2, <2>3 DEF Inv, KeptBy
<1> QED  BY <1>1, <1>2, <1>3, <1>4, <1>5 DEF Next

\* The manager never overwrites the stray of a hand and no hand drops one unseen,
\* for any number of hands and strays (manager.go:129-133, hands.go:34-99).
THEOREM NoStrayDropped == Spec => StrayIsKept
<1>1. Inv /\ [Next]_vars => Inv'
  BY NextInv
<1>2. Inv /\ [Next]_vars => \A g \in Hands : KeptBy(g)
  BY NextInv
<1>3. Inv /\ [Next]_vars =>
          [\A h \in Hands : stray[h] # NoFile /\ stray'[h] # stray[h] =>
              mine[h] = stray[h] /\ stray'[h] = NoFile]_vars
  BY <1>2 DEF KeptBy
<1> QED  BY InitInv, <1>1, <1>3, PTL DEF Spec, StrayIsKept

\* Two hands never get the same stray from one list (manager.go:141-150, 198).
THEOREM OneHandPerListing == Spec => []SharedOnlyByRefresh
<1>1. Inv /\ [Next]_vars => Inv'
  BY NextInv
<1>2. Inv => SharedOnlyByRefresh
  BY DEF Inv
<1> QED  BY InitInv, <1>1, <1>2, PTL DEF Spec

\* What a hand proves is the whole file, and on disk unless the prover has deleted it
\* since, whichever channel the select takes first and whatever the providers send
\* (hands.go:47-79, downloads.go:256-282).
THEOREM ProvenIsStored == Spec => []ProvesWhatIsStored
<1>1. Inv /\ [Next]_vars => Inv'
  BY NextInv
<1>2. Inv => ProvesWhatIsStored
  BY DEF Inv, DiskInv
<1> QED  BY InitInv, <1>1, <1>2, PTL DEF Spec

-----------------------------------------------------------------------------
(* Types.                                                                  *)

\* Where the manager deals with a hand there is one.
AtHand == mgr \in {"granting", "asking", "taking"} => next \in Hands
TypeInv == TypeOK /\ AtHand

LEMMA TypeInit == Init => TypeInv
<1> SUFFICES ASSUME Init PROVE TypeInv
  OBVIOUS
<1>1. 1 \in 1..(HandCount + 1)
  BY StraysAssumption
<1>2. stored \in [Files -> Contents]
  BY DEF Init, Contents
<1>3. line \in Seq(Messages) /\ taken \in Nat /\ taken <= Len(line)
  BY DEF Init
<1>4. mgr \in Mgrs /\ AtHand /\ next \in 1..(HandCount + 1) /\ running \in BOOLEAN
  BY <1>1 DEF Init, Mgrs, AtHand
<1>5. list \in Seq(Files)
  BY DEF Init
<1>6. at \in [Hands -> Ats] /\ on \in [Hands -> BOOLEAN] /\ listed \in [Hands -> BOOLEAN]
  BY DEF Init, Ats
<1>7. /\ stray \in [Hands -> Files \cup {NoFile}] /\ mine \in [Hands -> Files \cup {NoFile}]
      /\ left \in [Hands -> SUBSET Providers] /\ copy \in [Hands -> Copies]
      /\ gone \subseteq Hands
  BY DEF Init, Copies
<1> QED  BY <1>2, <1>3, <1>4, <1>5, <1>6, <1>7 DEF TypeInv, TypeOK

\* The manager: the hands' goroutines and the disk stay as they are.
LEMMA ManagerTypes == ASSUME TypeInv, Manager PROVE TypeInv'
<1> USE StraysAssumption DEF TypeInv
<1>1. CASE Skip \/ ClaimAnswered \/ Start \/ Turn \/ Offer \/ Visit \/ EndManager
  <2>1. UNCHANGED <<list, on, stray, mine, left, copy, listed, gone, stored, line, taken>>
    BY <1>1 DEF Skip, ClaimAnswered, Start, Turn, Offer, Visit, EndManager, hands, world
  <2>2. at' \in [Hands -> Ats] /\ running' \in BOOLEAN
    BY <1>1 DEF Skip, ClaimAnswered, Start, Turn, Offer, Visit, EndManager, hands, TypeOK, Ats
  <2>3. mgr' \in Mgrs /\ next' \in 1..(HandCount + 1) /\ AtHand'
    <3>1. CASE Skip
      BY <3>1 DEF Skip, TypeOK, AtHand, Hands
    <3>2. CASE ClaimAnswered
      BY <3>2 DEF ClaimAnswered, TypeOK, AtHand, Hands, Mgrs
    <3>3. CASE Start \/ Turn \/ EndManager
      BY <3>3 DEF Start, Turn, EndManager, TypeOK, AtHand, Mgrs
    <3>4. CASE Offer
      BY <3>4 DEF Offer, TypeOK, AtHand, Mgrs
    <3>5. CASE Visit
      BY <3>5 DEF Visit, TypeOK, AtHand, Hands, Mgrs
    <3> QED  BY <1>1, <3>1, <3>2, <3>3, <3>4, <3>5
  <2> QED  BY <2>1, <2>2, <2>3 DEF TypeOK
<1>2. CASE Claim \/ Grant
  <2>1. next \in Hands /\ UNCHANGED <<next, running, list, hands, stored, taken>>
    BY <1>2 DEF Claim, Grant, AtHand
  <2>2. \E m \in Messages : line' = Append(line, m)
    BY <1>2, <2>1 DEF Claim, Grant, Message, Messages
  <2>3. line' \in Seq(Messages) /\ Len(line') = Len(line) + 1
    BY <2>2 DEF TypeOK
  <2>4. mgr' \in Mgrs
    BY <1>2 DEF Claim, Grant, Mgrs
  <2> QED  BY <2>1, <2>3, <2>4 DEF TypeOK, AtHand, hands
<1>3. CASE Take
  <2>1. list' \in Seq(Files) /\ (list # <<>> => Head(list) \in Files)
    BY <1>3 DEF Take, Rest, TypeOK
  <2>2. stray' \in [Hands -> Files \cup {NoFile}] /\ listed' \in [Hands -> BOOLEAN]
    BY <1>3, <2>1 DEF Take, TypeOK
  <2>3. mgr' \in Mgrs /\ next' \in 1..(HandCount + 1) /\ AtHand'
    BY <1>3 DEF Take, TypeOK, AtHand, Hands, Mgrs
  <2> QED  BY <1>3, <2>1, <2>2, <2>3 DEF Take, TypeOK, world
<1> QED  BY <1>1, <1>2, <1>3 DEF Manager

\* A hand.
LEMMA HandTypes == ASSUME TypeInv, NEW h \in Hands, Hand(h) \/ CopyEnds(h) PROVE TypeInv'
<1> USE DEF TypeInv
<1>1. UNCHANGED <<mgr, next, running, list>>
  BY DEF Hand, StartHand, Loop, Look, CheckTree, FindFile, NotFound, Request, Select, WriteFile,
     LoadFile, Post, ProofAnswered, CopyEnds, Finish, manager
<1>2. AtHand'
  BY <1>1 DEF AtHand
<1>3. ASSUME Finish(h), UNCHANGED world PROVE TypeOK'
  BY <1>1, <1>3 DEF Finish, Goto, TypeOK, world, Ats, Copies
<1>4. CASE StartHand(h) \/ Loop(h) \/ Look(h)
  BY <1>1, <1>2, <1>4 DEF StartHand, Loop, Look, Goto, TypeOK, world, Ats
<1>5. CASE CheckTree(h) \/ FindFile(h) \/ NotFound(h) \/ LoadFile(h) \/ ProofAnswered(h)
  <2>1. UNCHANGED world
    BY <1>5 DEF CheckTree, FindFile, NotFound, LoadFile, ProofAnswered
  <2>2. CASE ~Finish(h)
    <3>1. UNCHANGED <<on, stray, mine, copy, listed, gone>>
      BY <1>5, <2>2 DEF CheckTree, FindFile, NotFound, LoadFile, ProofAnswered
    <3>2. \E place \in Ats : Goto(h, place)
      BY <1>5, <2>2 DEF CheckTree, FindFile, NotFound, LoadFile, ProofAnswered, Ats
    <3>3. at' \in [Hands -> Ats]
      BY <3>2 DEF Goto, TypeOK
    <3>4. left' \in [Hands -> SUBSET Providers]
      BY <1>5, <2>2 DEF CheckTree, FindFile, NotFound, LoadFile, ProofAnswered, TypeOK
    <3> QED  BY <1>1, <1>2, <2>1, <3>1, <3>3, <3>4 DEF TypeOK, world
  <2> QED  BY <1>2, <1>3, <2>1, <2>2
<1>6. CASE Request(h) \/ Select(h) \/ CopyEnds(h)
  BY <1>1, <1>2, <1>6 DEF Request, Select, CopyEnds, Goto, TypeOK, world, Ats, Copies
<1>7. CASE WriteFile(h)
  <2>1. stored' \in [Files -> Contents]
    BY <1>7 DEF WriteFile, Matches, TypeOK, Contents
  <2> QED  BY <1>1, <1>2, <1>7, <2>1 DEF WriteFile, Goto, TypeOK, Ats, Copies
<1>8. CASE Post(h)
  <2>1. CASE Finish(h) /\ UNCHANGED line
    <3>1. UNCHANGED world
      BY <1>8, <2>1 DEF Post, world
    <3> QED  BY <1>2, <1>3, <2>1, <3>1
  <2>2. CASE line' = Append(line, Message("proof", h)) /\ Goto(h, "waiting")
               /\ UNCHANGED <<on, stray, mine, left, copy, listed, gone>>
    <3>1. Message("proof", h) \in Messages
      BY DEF Message, Messages
    <3>2. line' \in Seq(Messages) /\ Len(line') = Len(line) + 1
      BY <2>2, <3>1 DEF TypeOK
    <3> QED  BY <1>1, <1>2, <1>8, <2>2, <3>2 DEF Post, Goto, TypeOK, Ats
  <2> QED  BY <1>8, <2>1, <2>2 DEF Post
<1> QED  BY <1>4, <1>5, <1>6, <1>7, <1>8 DEF Hand

LEMMA TypeStep == TypeInv /\ [Next]_vars => TypeInv'
<1> SUFFICES ASSUME TypeInv, [Next]_vars PROVE TypeInv'
  OBVIOUS
<1> USE DEF TypeInv
<1>1. ASSUME NEW page \in Pages, RefreshList(page) PROVE TypeInv'
  <2>1. page \in Seq(Files)
    BY DEF Pages
  <2> QED  BY <1>1, <2>1 DEF RefreshList, TypeOK, AtHand, Mgrs, world
<1>2. CASE Stop
  BY <1>2 DEF Stop, TypeOK, AtHand, world
<1>3. CASE TakeBatch
  <2>1. taken' \in Nat /\ taken' <= Len(line)
    BY <1>3 DEF TakeBatch, TypeOK
  <2> QED  BY <1>3, <2>1 DEF TakeBatch, TypeOK, AtHand, manager, hands
<1>4. CASE Answer
  <2>1. line # <<>>
    BY <1>4 DEF Answer, TypeOK
  <2>2. line' \in Seq(Messages) /\ Len(line') = Len(line) - 1
    BY <1>4, <2>1 DEF Answer, TypeOK
  <2> QED  BY <1>4, <2>2 DEF Answer, TypeOK, AtHand, manager, hands
<1>5. ASSUME NEW f \in Files, DeleteFile(f) PROVE TypeInv'
  BY <1>5 DEF DeleteFile, TypeOK, AtHand, Contents, manager, hands
<1>6. CASE UNCHANGED vars
  BY <1>6 DEF vars, manager, hands, world, TypeOK, AtHand
<1> QED  BY <1>1, <1>2, <1>3, <1>4, <1>5, <1>6, ManagerTypes, HandTypes DEF Next

\* Every variable of manager, hands, disk and line keeps its type; a batch is never
\* longer than the line it was taken from (manager.go, hands.go, downloads.go).
THEOREM TypeCorrect == Spec => []TypeOK
<1>1. TypeInv => TypeOK
  BY DEF TypeInv
<1> QED  BY <1>1, TypeInit, TypeStep, PTL DEF Spec
=============================================================================
