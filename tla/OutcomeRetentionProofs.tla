------------------------ MODULE OutcomeRetentionProofs ------------------------
(***************************************************************************)
(* Proofs about the close of a session, for any number of overlapping      *)
(* passes and any bounds: types, a closed session has its whole archive,   *)
(* the manifest is last, a repeated put finds the same content, and what   *)
(* the documents know of a closed session never changes.                   *)
(*                                                                         *)
(* The argument: once the session is no longer open nobody is admitted, so *)
(* after a seal nothing is queued and the sequence of the board is final;  *)
(* every object is made at that sequence, in an order that leaves none out,*)
(* and no crash brings the open session back, because its end has passed.  *)
(***************************************************************************)
EXTENDS OutcomeRetention, TLAPS

(* The places of a pass that come after its seal, and after its save.      *)
Saving == {"saving", "validating", "canvas", "ledger", "manifest", "marking", "storing"}
Archiving == Saving \ {"saving"}

Kept(o) == objects[o] # Missing

BoardIsLevel ==
  /\ board.ledger = board.seq
  /\ board.saved <= board.seq
  /\ board.seq + board.queued <= MaxWrites

(* Nothing has been purged here, and nothing but "open" precedes the end.  *)
EndHasPassed ==
  \A s \in {session, stored} : ~s.purged /\ (s.status # "open" => now >= EndsAt)

PassIsInOrder(p) ==
  /\ pass[p].at # "idle" => session.status # "open"
  /\ pass[p].at \in Saving => board.queued = 0
  /\ pass[p].at \in Archiving => pass[p].seq = board.seq
  /\ pass[p].at \in {"ledger", "manifest", "marking", "storing"} => Kept("canvas")
  /\ pass[p].at \in {"manifest", "marking", "storing"} => Kept("ledger")
  /\ pass[p].at \in {"marking", "storing"} => Kept("manifest")

ObjectsAreFinal ==
  /\ \A o \in Objects :
       Kept(o) => /\ objects[o] = board.seq
                  /\ board.queued = 0 /\ now >= EndsAt /\ session.status # "open"
  /\ Kept("manifest") => Kept("canvas") /\ Kept("ledger")

ClosedIsSealed ==
  /\ \A s \in {session, stored} : s.status = "closed" =>
       /\ \A o \in Objects : Kept(o)
       /\ s.finalSeq = board.seq
  /\ stored.status = "closed" => session.status = "closed"

CloseInv ==
  /\ CloseTypeOK /\ BoardIsLevel /\ EndHasPassed
  /\ \A p \in Passes : PassIsInOrder(p)
  /\ ObjectsAreFinal /\ ClosedIsSealed

-----------------------------------------------------------------------------
(* Where a save and a reload leave the board.                              *)
LEMMA SavedBoard ==
  ASSUME CloseTypeOK, BoardIsLevel
  PROVE  /\ Saved(board) \in [seq : 0..MaxWrites, ledger : 0..MaxWrites, items : BOOLEAN,
                saved : 0..MaxWrites, queued : 0..MaxWrites, sealed : BOOLEAN]
         /\ Saved(board).seq = board.seq /\ Saved(board).ledger = board.ledger
         /\ Saved(board).queued = board.queued
         /\ Saved(board).saved <= board.seq
  BY CloseAssumption DEF CloseTypeOK, BoardIsLevel, Saved

LEMMA ReloadedBoard ==
  ASSUME CloseTypeOK, BoardIsLevel
  PROVE  /\ Reloaded(board) \in [seq : 0..MaxWrites, ledger : 0..MaxWrites, items : BOOLEAN,
                saved : 0..MaxWrites, queued : 0..MaxWrites, sealed : BOOLEAN]
         /\ Reloaded(board).seq = board.seq /\ Reloaded(board).ledger = board.ledger
         /\ Reloaded(board).queued = 0
         /\ Reloaded(board).saved = board.saved
  <1>1. /\ 0 \in 0..MaxWrites /\ FALSE \in BOOLEAN
        /\ (IF board.ledger > board.saved THEN board.ledger ELSE board.saved) = board.seq
    BY CloseAssumption DEF CloseTypeOK, BoardIsLevel
  <1>2. Reloaded(board) = [board EXCEPT !.queued = 0, !.sealed = FALSE, !.seq = board.seq]
    BY <1>1 DEF Reloaded
  <1>3. board \in [seq : 0..MaxWrites, ledger : 0..MaxWrites, items : BOOLEAN,
                saved : 0..MaxWrites, queued : 0..MaxWrites, sealed : BOOLEAN]
    BY DEF CloseTypeOK
  <1>4. board.seq \in 0..MaxWrites
    BY <1>3
  <1> QED
    BY <1>1, <1>2, <1>3, <1>4, Zenon

LEMMA InitInv == Init => CloseInv
  <1> SUFFICES ASSUME Init PROVE CloseInv
    OBVIOUS
  <1>1. CloseTypeOK
    <2>1. 0 \in 0..MaxWrites /\ 0 \in 0..Horizon /\ 0 \in 0..MaxFaults /\ 0 \in Nat
          /\ FALSE \in BOOLEAN
      BY CloseAssumption
    <2>2. session \in SessionRecord /\ stored \in SessionRecord
      BY <2>1, Zenon DEF Init, SessionRecord
    <2>3. board \in [seq : 0..MaxWrites, ledger : 0..MaxWrites, items : BOOLEAN,
                saved : 0..MaxWrites, queued : 0..MaxWrites, sealed : BOOLEAN]
      BY <2>1, Zenon DEF Init
    <2>4. objects \in [Objects -> 0..MaxWrites \cup {Missing}]
      BY <2>1 DEF Init
    <2>5. pass \in [Passes -> [at : Closing \cup {"idle", "listed"}, seq : 0..MaxWrites]]
      BY <2>1 DEF Init, Idle
    <2>6. now \in 0..Horizon /\ faults \in 0..MaxFaults /\ pending \in BOOLEAN
      BY <2>1, Zenon DEF Init
    <2>7. \A s \in {session, stored} :
            /\ s.key <=> (s.status = "closed" /\ ~s.purged)
            /\ s.purged => s.status = "closed"
      BY DEF Init
    <2> QED
      BY <2>2, <2>3, <2>4, <2>5, <2>6, <2>7 DEF CloseTypeOK
  <1>2. BoardIsLevel /\ EndHasPassed
    BY CloseAssumption DEF Init, BoardIsLevel, EndHasPassed
  <1>3. \A p \in Passes : PassIsInOrder(p)
    BY DEF Init, PassIsInOrder, Idle, Saving, Archiving
  <1>4. ObjectsAreFinal /\ ClosedIsSealed
    BY DEF Init, ObjectsAreFinal, ClosedIsSealed, Kept, Objects
  <1> QED
    BY <1>1, <1>2, <1>3, <1>4 DEF CloseInv

-----------------------------------------------------------------------------
(* Each action keeps the invariant.                                       *)
LEMMA AdmitKeeps ==
  ASSUME CloseInv, Admit
  PROVE  CloseInv'
  <1> USE CloseAssumption DEF CloseInv
  <1>1. CloseTypeOK'
    BY SMTT(20) DEF Admit, CloseTypeOK, SessionRecord, Closing, Objects, Missing, BoardIsLevel
  <1>2. BoardIsLevel'
    BY SMTT(20) DEF Admit, CloseTypeOK, BoardIsLevel
  <1>3. EndHasPassed'
    BY SMTT(20) DEF Admit, CloseTypeOK, SessionRecord, EndHasPassed
  <1>4. (\A q \in Passes : PassIsInOrder(q))'
    BY SMTT(20) DEF Admit, CloseTypeOK, SessionRecord, PassIsInOrder, Saving, Archiving, Kept, Objects, Missing, ObjectsAreFinal, Closing
  <1>5. ObjectsAreFinal'
    BY SMTT(20) DEF Admit, CloseTypeOK, SessionRecord, ObjectsAreFinal, Kept, Objects, Missing, PassIsInOrder, Saving, Archiving, BoardIsLevel, EndHasPassed
  <1>6. ClosedIsSealed'
    BY SMTT(20) DEF Admit, CloseTypeOK, SessionRecord, ClosedIsSealed, Kept, Objects, Missing, PassIsInOrder, Saving, Archiving, ObjectsAreFinal
  <1> QED
    BY <1>1, <1>2, <1>3, <1>4, <1>5, <1>6

LEMMA AcceptKeeps ==
  ASSUME CloseInv, Accept
  PROVE  CloseInv'
  <1> USE CloseAssumption DEF CloseInv
  <1>1. CloseTypeOK'
    <2> DEFINE Board == [seq : 0..MaxWrites, ledger : 0..MaxWrites, items : BOOLEAN,
                saved : 0..MaxWrites, queued : 0..MaxWrites, sealed : BOOLEAN]
    <2>1. PICK i \in BOOLEAN :
            board' = IF board.sealed THEN [board EXCEPT !.queued = @ - 1]
                     ELSE [board EXCEPT !.queued = @ - 1, !.seq = @ + 1,
                                        !.ledger = @ + 1, !.items = i]
      BY DEF Accept
    <2>2. /\ board \in Board
          /\ board.queued - 1 \in 0..MaxWrites /\ board.seq + 1 \in 0..MaxWrites
          /\ board.ledger + 1 \in 0..MaxWrites
      BY DEF Accept, CloseTypeOK, BoardIsLevel
    <2>3. [board EXCEPT !.queued = @ - 1] \in Board
      BY <2>2
    <2>4. [board EXCEPT !.queued = @ - 1, !.seq = @ + 1, !.ledger = @ + 1, !.items = i] \in Board
      BY <2>2, Zenon
    <2>5. board' \in Board
      BY <2>1, <2>3, <2>4, Zenon
    <2> QED
      BY <2>5 DEF Accept, CloseTypeOK
  <1>2. BoardIsLevel'
    BY SMTT(20) DEF Accept, CloseTypeOK, BoardIsLevel
  <1>3. EndHasPassed'
    BY SMTT(20) DEF Accept, CloseTypeOK, SessionRecord, EndHasPassed
  <1>4. (\A q \in Passes : PassIsInOrder(q))'
    BY SMTT(20) DEF Accept, CloseTypeOK, SessionRecord, PassIsInOrder, Saving, Archiving, Kept, Objects, Missing, ObjectsAreFinal, Closing
  <1>5. ObjectsAreFinal'
    BY SMTT(20) DEF Accept, CloseTypeOK, SessionRecord, ObjectsAreFinal, Kept, Objects, Missing, PassIsInOrder, Saving, Archiving, BoardIsLevel, EndHasPassed
  <1>6. ClosedIsSealed'
    BY SMTT(20) DEF Accept, CloseTypeOK, SessionRecord, ClosedIsSealed, Kept, Objects, Missing, PassIsInOrder, Saving, Archiving, ObjectsAreFinal
  <1> QED
    BY <1>1, <1>2, <1>3, <1>4, <1>5, <1>6

LEMMA TimerSavesKeeps ==
  ASSUME CloseInv, TimerSaves
  PROVE  CloseInv'
  <1> USE CloseAssumption DEF CloseInv
  <1>1. CloseTypeOK'
    BY SavedBoard, SMTT(20) DEF TimerSaves, CloseTypeOK, SessionRecord, Closing, Objects, Missing, BoardIsLevel
  <1>2. BoardIsLevel'
    BY SavedBoard, SMTT(20) DEF TimerSaves, CloseTypeOK, BoardIsLevel
  <1>3. EndHasPassed'
    BY SMTT(20) DEF TimerSaves, CloseTypeOK, SessionRecord, EndHasPassed
  <1>4. (\A q \in Passes : PassIsInOrder(q))'
    BY SavedBoard, SMTT(20) DEF TimerSaves, CloseTypeOK, SessionRecord, PassIsInOrder, Saving, Archiving, Kept, Objects, Missing, ObjectsAreFinal, Closing
  <1>5. ObjectsAreFinal'
    BY SavedBoard, SMTT(20) DEF TimerSaves, CloseTypeOK, SessionRecord, ObjectsAreFinal, Kept, Objects, Missing, PassIsInOrder, Saving, Archiving, BoardIsLevel, EndHasPassed
  <1>6. ClosedIsSealed'
    BY SavedBoard, SMTT(20) DEF TimerSaves, CloseTypeOK, SessionRecord, ClosedIsSealed, Kept, Objects, Missing, PassIsInOrder, Saving, Archiving, ObjectsAreFinal
  <1> QED
    BY <1>1, <1>2, <1>3, <1>4, <1>5, <1>6

LEMMA TickKeeps ==
  ASSUME CloseInv, Tick
  PROVE  CloseInv'
  <1> USE CloseAssumption DEF CloseInv
  <1>1. CloseTypeOK'
    BY SMTT(20) DEF Tick, CloseTypeOK, SessionRecord, Closing, Objects, Missing, BoardIsLevel
  <1>2. BoardIsLevel'
    BY SMTT(20) DEF Tick, CloseTypeOK, BoardIsLevel
  <1>3. EndHasPassed'
    BY SMTT(20) DEF Tick, CloseTypeOK, SessionRecord, EndHasPassed
  <1>4. (\A q \in Passes : PassIsInOrder(q))'
    BY SMTT(20) DEF Tick, CloseTypeOK, SessionRecord, PassIsInOrder, Saving, Archiving, Kept, Objects, Missing, ObjectsAreFinal, Closing
  <1>5. ObjectsAreFinal'
    BY SMTT(20) DEF Tick, CloseTypeOK, SessionRecord, ObjectsAreFinal, Kept, Objects, Missing, PassIsInOrder, Saving, Archiving, BoardIsLevel, EndHasPassed
  <1>6. ClosedIsSealed'
    BY SMTT(20) DEF Tick, CloseTypeOK, SessionRecord, ClosedIsSealed, Kept, Objects, Missing, PassIsInOrder, Saving, Archiving, ObjectsAreFinal
  <1> QED
    BY <1>1, <1>2, <1>3, <1>4, <1>5, <1>6

LEMMA PersistKeeps ==
  ASSUME CloseInv, Persist
  PROVE  CloseInv'
  <1> USE CloseAssumption DEF CloseInv
  <1>1. CloseTypeOK'
    <2>1. pending' \in BOOLEAN
      BY Zenon DEF Persist, PersistAll
    <2> QED
      BY <2>1 DEF Persist, PersistAll, CloseTypeOK
  <1>2. BoardIsLevel'
    BY SMTT(20) DEF Persist, PersistAll, CloseTypeOK, BoardIsLevel
  <1>3. EndHasPassed'
    BY SMTT(20) DEF Persist, PersistAll, CloseTypeOK, SessionRecord, EndHasPassed
  <1>4. (\A q \in Passes : PassIsInOrder(q))'
    BY SMTT(20) DEF Persist, PersistAll, CloseTypeOK, SessionRecord, PassIsInOrder, Saving, Archiving, Kept, Objects, Missing, ObjectsAreFinal, Closing
  <1>5. ObjectsAreFinal'
    BY SMTT(20) DEF Persist, PersistAll, CloseTypeOK, SessionRecord, ObjectsAreFinal, Kept, Objects, Missing, PassIsInOrder, Saving, Archiving, BoardIsLevel, EndHasPassed
  <1>6. ClosedIsSealed'
    BY SMTT(20) DEF Persist, PersistAll, CloseTypeOK, SessionRecord, ClosedIsSealed, Kept, Objects, Missing, PassIsInOrder, Saving, Archiving, ObjectsAreFinal
  <1> QED
    BY <1>1, <1>2, <1>3, <1>4, <1>5, <1>6

LEMMA PersistFailsKeeps ==
  ASSUME CloseInv, PersistFails
  PROVE  CloseInv'
  <1> USE CloseAssumption DEF CloseInv
  <1>1. CloseTypeOK'
    <2>1. pending' \in BOOLEAN /\ faults' \in 0..MaxFaults
      <3>1. pending' = FALSE
        BY DEF PersistFails
      <3>2. faults' \in 0..MaxFaults
        BY DEF PersistFails, Fault, CloseTypeOK
      <3> QED
        BY <3>1, <3>2, Zenon
    <2> QED
      BY <2>1 DEF PersistFails, CloseTypeOK
  <1>2. BoardIsLevel'
    BY SMTT(20) DEF PersistFails, Fault, CloseTypeOK, BoardIsLevel
  <1>3. EndHasPassed'
    BY SMTT(20) DEF PersistFails, Fault, CloseTypeOK, SessionRecord, EndHasPassed
  <1>4. (\A q \in Passes : PassIsInOrder(q))'
    BY SMTT(20) DEF PersistFails, Fault, CloseTypeOK, SessionRecord, PassIsInOrder, Saving, Archiving, Kept, Objects, Missing, ObjectsAreFinal, Closing
  <1>5. ObjectsAreFinal'
    BY SMTT(20) DEF PersistFails, Fault, CloseTypeOK, SessionRecord, ObjectsAreFinal, Kept, Objects, Missing, PassIsInOrder, Saving, Archiving, BoardIsLevel, EndHasPassed
  <1>6. ClosedIsSealed'
    BY SMTT(20) DEF PersistFails, Fault, CloseTypeOK, SessionRecord, ClosedIsSealed, Kept, Objects, Missing, PassIsInOrder, Saving, Archiving, ObjectsAreFinal
  <1> QED
    BY <1>1, <1>2, <1>3, <1>4, <1>5, <1>6

LEMMA AdvanceLifecycleKeeps ==
  ASSUME CloseInv, AdvanceLifecycle
  PROVE  CloseInv'
  <1> USE CloseAssumption DEF CloseInv
  <1>1. CloseTypeOK'
    BY SMTT(20) DEF AdvanceLifecycle, Change, Over, CloseTypeOK, SessionRecord, Closing, Objects, Missing, BoardIsLevel
  <1>2. BoardIsLevel'
    BY SMTT(20) DEF AdvanceLifecycle, Change, Over, CloseTypeOK, BoardIsLevel
  <1>3. EndHasPassed'
    BY SMTT(20) DEF AdvanceLifecycle, Change, Over, CloseTypeOK, SessionRecord, EndHasPassed
  <1>4. (\A q \in Passes : PassIsInOrder(q))'
    BY SMTT(20) DEF AdvanceLifecycle, Change, Over, CloseTypeOK, SessionRecord, PassIsInOrder, Saving, Archiving, Kept, Objects, Missing, ObjectsAreFinal, Closing
  <1>5. ObjectsAreFinal'
    BY SMTT(20) DEF AdvanceLifecycle, Change, Over, CloseTypeOK, SessionRecord, ObjectsAreFinal, Kept, Objects, Missing, PassIsInOrder, Saving, Archiving, BoardIsLevel, EndHasPassed
  <1>6. ClosedIsSealed'
    BY SMTT(20) DEF AdvanceLifecycle, Change, Over, CloseTypeOK, SessionRecord, ClosedIsSealed, Kept, Objects, Missing, PassIsInOrder, Saving, Archiving, ObjectsAreFinal
  <1> QED
    BY <1>1, <1>2, <1>3, <1>4, <1>5, <1>6

LEMMA RetryBoardSessionArchiveKeeps ==
  ASSUME CloseInv, RetryBoardSessionArchive
  PROVE  CloseInv'
  <1> USE CloseAssumption DEF CloseInv
  <1>1. CloseTypeOK'
    BY SMTT(20) DEF RetryBoardSessionArchive, Change, CloseTypeOK, SessionRecord, Closing, Objects, Missing, BoardIsLevel
  <1>2. BoardIsLevel'
    BY SMTT(20) DEF RetryBoardSessionArchive, Change, CloseTypeOK, BoardIsLevel
  <1>3. EndHasPassed'
    BY SMTT(20) DEF RetryBoardSessionArchive, Change, CloseTypeOK, SessionRecord, EndHasPassed
  <1>4. (\A q \in Passes : PassIsInOrder(q))'
    BY SMTT(20) DEF RetryBoardSessionArchive, Change, CloseTypeOK, SessionRecord, PassIsInOrder, Saving, Archiving, Kept, Objects, Missing, ObjectsAreFinal, Closing
  <1>5. ObjectsAreFinal'
    BY SMTT(20) DEF RetryBoardSessionArchive, Change, CloseTypeOK, SessionRecord, ObjectsAreFinal, Kept, Objects, Missing, PassIsInOrder, Saving, Archiving, BoardIsLevel, EndHasPassed
  <1>6. ClosedIsSealed'
    BY SMTT(20) DEF RetryBoardSessionArchive, Change, CloseTypeOK, SessionRecord, ClosedIsSealed, Kept, Objects, Missing, PassIsInOrder, Saving, Archiving, ObjectsAreFinal
  <1> QED
    BY <1>1, <1>2, <1>3, <1>4, <1>5, <1>6

LEMMA CrashKeeps ==
  ASSUME CloseInv, Crash
  PROVE  CloseInv'
  <1> USE CloseAssumption DEF CloseInv
  <1>1. CloseTypeOK'
    BY ReloadedBoard, SMTT(20) DEF Crash, Fault, Restarted, Idle, CloseTypeOK, SessionRecord, Closing, Objects, Missing, BoardIsLevel
  <1>2. BoardIsLevel'
    BY ReloadedBoard, SMTT(20) DEF Crash, Fault, Restarted, Idle, CloseTypeOK, BoardIsLevel
  <1>3. EndHasPassed'
    BY SMTT(20) DEF Crash, Fault, Restarted, Idle, CloseTypeOK, SessionRecord, EndHasPassed
  <1>4. (\A q \in Passes : PassIsInOrder(q))'
    BY ReloadedBoard, SMTT(20) DEF Crash, Fault, Restarted, Idle, CloseTypeOK, SessionRecord, PassIsInOrder, Saving, Archiving, Kept, Objects, Missing, ObjectsAreFinal, Closing
  <1>5. ObjectsAreFinal'
    BY ReloadedBoard, SMTT(20) DEF Crash, Fault, Restarted, Idle, CloseTypeOK, SessionRecord, ObjectsAreFinal, Kept, Objects, Missing, PassIsInOrder, Saving, Archiving, BoardIsLevel, EndHasPassed
  <1>6. ClosedIsSealed'
    BY ReloadedBoard, SMTT(20) DEF Crash, Fault, Restarted, Idle, CloseTypeOK, SessionRecord, ClosedIsSealed, Kept, Objects, Missing, PassIsInOrder, Saving, Archiving, ObjectsAreFinal
  <1> QED
    BY <1>1, <1>2, <1>3, <1>4, <1>5, <1>6

LEMMA ListDueKeeps ==
  ASSUME NEW p \in Passes, CloseInv, ListDue(p)
  PROVE  CloseInv'
  <1> USE CloseAssumption DEF CloseInv
  <1>1. CloseTypeOK'
    BY SMTT(20) DEF ListDue, Goes, DueToClose, CloseTypeOK, SessionRecord, Closing, Objects, Missing, BoardIsLevel
  <1>2. BoardIsLevel'
    BY SMTT(20) DEF ListDue, Goes, DueToClose, CloseTypeOK, BoardIsLevel
  <1>3. EndHasPassed'
    BY SMTT(20) DEF ListDue, Goes, DueToClose, CloseTypeOK, SessionRecord, EndHasPassed
  <1>4. (\A q \in Passes : PassIsInOrder(q))'
    BY SMTT(20) DEF ListDue, Goes, DueToClose, CloseTypeOK, SessionRecord, PassIsInOrder, Saving, Archiving, Kept, Objects, Missing, ObjectsAreFinal, Closing
  <1>5. ObjectsAreFinal'
    BY SMTT(20) DEF ListDue, Goes, DueToClose, CloseTypeOK, SessionRecord, ObjectsAreFinal, Kept, Objects, Missing, PassIsInOrder, Saving, Archiving, BoardIsLevel, EndHasPassed
  <1>6. ClosedIsSealed'
    BY SMTT(20) DEF ListDue, Goes, DueToClose, CloseTypeOK, SessionRecord, ClosedIsSealed, Kept, Objects, Missing, PassIsInOrder, Saving, Archiving, ObjectsAreFinal
  <1> QED
    BY <1>1, <1>2, <1>3, <1>4, <1>5, <1>6

LEMMA TurnKeeps ==
  ASSUME NEW p \in Passes, CloseInv, Turn(p)
  PROVE  CloseInv'
  <1> USE CloseAssumption DEF CloseInv
  <1>1. CloseTypeOK'
    BY SMTT(20) DEF Turn, Goes, Closing, CloseTypeOK, SessionRecord, Closing, Objects, Missing, BoardIsLevel
  <1>2. BoardIsLevel'
    BY SMTT(20) DEF Turn, Goes, Closing, CloseTypeOK, BoardIsLevel
  <1>3. EndHasPassed'
    BY SMTT(20) DEF Turn, Goes, Closing, CloseTypeOK, SessionRecord, EndHasPassed
  <1>4. (\A q \in Passes : PassIsInOrder(q))'
    BY SMTT(20) DEF Turn, Goes, Closing, CloseTypeOK, SessionRecord, PassIsInOrder, Saving, Archiving, Kept, Objects, Missing, ObjectsAreFinal, Closing
  <1>5. ObjectsAreFinal'
    BY SMTT(20) DEF Turn, Goes, Closing, CloseTypeOK, SessionRecord, ObjectsAreFinal, Kept, Objects, Missing, PassIsInOrder, Saving, Archiving, BoardIsLevel, EndHasPassed
  <1>6. ClosedIsSealed'
    BY SMTT(20) DEF Turn, Goes, Closing, CloseTypeOK, SessionRecord, ClosedIsSealed, Kept, Objects, Missing, PassIsInOrder, Saving, Archiving, ObjectsAreFinal
  <1> QED
    BY <1>1, <1>2, <1>3, <1>4, <1>5, <1>6

LEMMA SealWritesKeeps ==
  ASSUME NEW p \in Passes, CloseInv, SealWrites(p)
  PROVE  CloseInv'
  <1> USE CloseAssumption DEF CloseInv
  <1>1. CloseTypeOK'
    <2>1. board' \in [seq : 0..MaxWrites, ledger : 0..MaxWrites, items : BOOLEAN,
                saved : 0..MaxWrites, queued : 0..MaxWrites, sealed : BOOLEAN]
      BY Zenon DEF SealWrites, CloseTypeOK
    <2> QED
      BY <2>1, SMTT(20) DEF SealWrites, Goes, CloseTypeOK, Closing
  <1>2. BoardIsLevel'
    BY SMTT(20) DEF SealWrites, Goes, CloseTypeOK, BoardIsLevel
  <1>3. EndHasPassed'
    BY SMTT(20) DEF SealWrites, Goes, CloseTypeOK, SessionRecord, EndHasPassed
  <1>4. (\A q \in Passes : PassIsInOrder(q))'
    BY SMTT(20) DEF SealWrites, Goes, CloseTypeOK, SessionRecord, PassIsInOrder, Saving, Archiving, Kept, Objects, Missing, ObjectsAreFinal, Closing
  <1>5. ObjectsAreFinal'
    BY SMTT(20) DEF SealWrites, Goes, CloseTypeOK, SessionRecord, ObjectsAreFinal, Kept, Objects, Missing, PassIsInOrder, Saving, Archiving, BoardIsLevel, EndHasPassed
  <1>6. ClosedIsSealed'
    BY SMTT(20) DEF SealWrites, Goes, CloseTypeOK, SessionRecord, ClosedIsSealed, Kept, Objects, Missing, PassIsInOrder, Saving, Archiving, ObjectsAreFinal
  <1> QED
    BY <1>1, <1>2, <1>3, <1>4, <1>5, <1>6

LEMMA SaveBoardKeeps ==
  ASSUME NEW p \in Passes, CloseInv, SaveBoard(p)
  PROVE  CloseInv'
  <1> USE CloseAssumption DEF CloseInv
  <1>1. CloseTypeOK'
    BY SavedBoard, SMTT(20) DEF SaveBoard, CloseTypeOK, SessionRecord, Closing, Objects, Missing, BoardIsLevel
  <1>2. BoardIsLevel'
    BY SavedBoard, SMTT(20) DEF SaveBoard, CloseTypeOK, BoardIsLevel
  <1>3. EndHasPassed'
    BY SMTT(20) DEF SaveBoard, CloseTypeOK, SessionRecord, EndHasPassed
  <1>4. (\A q \in Passes : PassIsInOrder(q))'
    BY SavedBoard, SMTT(20) DEF SaveBoard, CloseTypeOK, SessionRecord, PassIsInOrder, Saving, Archiving, Kept, Objects, Missing, ObjectsAreFinal, Closing
  <1>5. ObjectsAreFinal'
    BY SavedBoard, SMTT(20) DEF SaveBoard, CloseTypeOK, SessionRecord, ObjectsAreFinal, Kept, Objects, Missing, PassIsInOrder, Saving, Archiving, BoardIsLevel, EndHasPassed
  <1>6. ClosedIsSealed'
    BY SavedBoard, SMTT(20) DEF SaveBoard, CloseTypeOK, SessionRecord, ClosedIsSealed, Kept, Objects, Missing, PassIsInOrder, Saving, Archiving, ObjectsAreFinal
  <1> QED
    BY <1>1, <1>2, <1>3, <1>4, <1>5, <1>6

LEMMA ValidateKeeps ==
  ASSUME NEW p \in Passes, CloseInv, Validate(p)
  PROVE  CloseInv'
  <1> USE CloseAssumption DEF CloseInv
  <1>1. CloseTypeOK'
    BY SMTT(20) DEF Validate, Goes, CloseTypeOK, SessionRecord, Closing, Objects, Missing, BoardIsLevel
  <1>2. BoardIsLevel'
    BY SMTT(20) DEF Validate, Goes, CloseTypeOK, BoardIsLevel
  <1>3. EndHasPassed'
    BY SMTT(20) DEF Validate, Goes, CloseTypeOK, SessionRecord, EndHasPassed
  <1>4. (\A q \in Passes : PassIsInOrder(q))'
    BY SMTT(20) DEF Validate, Goes, CloseTypeOK, SessionRecord, PassIsInOrder, Saving, Archiving, Kept, Objects, Missing, ObjectsAreFinal, Closing
  <1>5. ObjectsAreFinal'
    BY SMTT(20) DEF Validate, Goes, CloseTypeOK, SessionRecord, ObjectsAreFinal, Kept, Objects, Missing, PassIsInOrder, Saving, Archiving, BoardIsLevel, EndHasPassed
  <1>6. ClosedIsSealed'
    BY SMTT(20) DEF Validate, Goes, CloseTypeOK, SessionRecord, ClosedIsSealed, Kept, Objects, Missing, PassIsInOrder, Saving, Archiving, ObjectsAreFinal
  <1> QED
    BY <1>1, <1>2, <1>3, <1>4, <1>5, <1>6

LEMMA PutArchiveKeeps ==
  ASSUME NEW p \in Passes, CloseInv, PutArchive(p)
  PROVE  CloseInv'
  <1> USE CloseAssumption DEF CloseInv
  <1>1. CloseTypeOK'
    BY SMTT(20) DEF PutArchive, Goes, After, CloseTypeOK, SessionRecord, Closing, Objects, Missing, BoardIsLevel
  <1>2. BoardIsLevel'
    BY SMTT(20) DEF PutArchive, Goes, After, CloseTypeOK, BoardIsLevel
  <1>3. EndHasPassed'
    BY SMTT(20) DEF PutArchive, Goes, After, CloseTypeOK, SessionRecord, EndHasPassed
  <1>4. (\A q \in Passes : PassIsInOrder(q))'
    BY SMTT(20) DEF PutArchive, Goes, After, CloseTypeOK, SessionRecord, PassIsInOrder, Saving, Archiving, Kept, Objects, Missing, ObjectsAreFinal, Closing
  <1>5. ObjectsAreFinal'
    BY SMTT(20) DEF PutArchive, Goes, After, CloseTypeOK, SessionRecord, ObjectsAreFinal, Kept, Objects, Missing, PassIsInOrder, Saving, Archiving, BoardIsLevel, EndHasPassed
  <1>6. ClosedIsSealed'
    BY SMTT(20) DEF PutArchive, Goes, After, CloseTypeOK, SessionRecord, ClosedIsSealed, Kept, Objects, Missing, PassIsInOrder, Saving, Archiving, ObjectsAreFinal
  <1> QED
    BY <1>1, <1>2, <1>3, <1>4, <1>5, <1>6

LEMMA MarkBoardSessionClosedKeeps ==
  ASSUME CloseInv, NEW p \in Passes, MarkBoardSessionClosed(p)
  PROVE  CloseInv'
  <1> USE CloseAssumption DEF CloseInv
  <1>1. CASE session.status \in {"closing", "archive_failed"}
    <2> DEFINE closed == [session EXCEPT !.status = "closed", !.key = TRUE,
                                         !.finalSeq = pass[p].seq,
                                         !.archivedAt = now, !.failedAt = 0]
    <2>1. /\ session' = closed /\ pass' = [pass EXCEPT ![p].at = "storing"]
          /\ pending' \in BOOLEAN
      BY <1>1, Zenon DEF MarkBoardSessionClosed, Change, Goes
    <2>2. /\ pass[p].seq \in Nat /\ now \in Nat /\ session \in SessionRecord
          /\ session.purged = FALSE /\ session.status # "closed"
          /\ session.status \in {"closing", "archive_failed"}
      BY <1>1 DEF CloseTypeOK, EndHasPassed
    <2>3. closed \in SessionRecord
      <3>1. 0 \in Nat /\ TRUE \in BOOLEAN
            /\ "closed" \in {"open", "closing", "archive_failed", "closed"}
        OBVIOUS
      <3> QED
        BY <2>2, <3>1, Zenon DEF SessionRecord
    <2>4. /\ session' \in SessionRecord /\ session'.status = "closed"
          /\ session'.key /\ ~session'.purged
          /\ session'.finalSeq = pass[p].seq
      BY <2>1, <2>2, <2>3, Zenon DEF SessionRecord
    <2> HIDE DEF closed
    <2>5. CloseTypeOK'
      BY <2>1, <2>2, <2>4, SMTT(20) DEF MarkBoardSessionClosed, CloseTypeOK, SessionRecord, Closing, Objects, Missing
    <2>6. BoardIsLevel'
      BY <2>1, <2>2, <2>4, SMTT(20) DEF MarkBoardSessionClosed, BoardIsLevel
    <2>7. EndHasPassed'
      BY <2>1, <2>2, <2>4, SMTT(20) DEF MarkBoardSessionClosed, CloseTypeOK, EndHasPassed
    <2>8. (\A q \in Passes : PassIsInOrder(q))'
      BY <2>1, <2>2, <2>4, SMTT(20) DEF MarkBoardSessionClosed, CloseTypeOK, PassIsInOrder, Saving, Archiving, Kept, Objects, Missing, ObjectsAreFinal, Closing
    <2>9. ObjectsAreFinal'
      BY <2>1, <2>2, <2>4, SMTT(20) DEF MarkBoardSessionClosed, CloseTypeOK, ObjectsAreFinal, Kept, Objects, Missing, PassIsInOrder, Saving, Archiving
    <2>10. ClosedIsSealed'
      BY <2>1, <2>2, <2>4, SMTT(20) DEF MarkBoardSessionClosed, CloseTypeOK, ClosedIsSealed, Kept, Objects, Missing, PassIsInOrder, Saving, Archiving, ObjectsAreFinal
    <2> QED
      BY <2>5, <2>6, <2>7, <2>8, <2>9, <2>10
  <1>2. CASE session.status \notin {"closing", "archive_failed"}
    <2>4. /\ UNCHANGED <<session, pending>> /\ pass' = [pass EXCEPT ![p].at = "failed"]
          /\ pass[p].at = "marking"
      BY <1>2, Zenon DEF MarkBoardSessionClosed, Goes
    <2>5. CloseTypeOK'
      BY <2>4, SMTT(20) DEF MarkBoardSessionClosed, CloseTypeOK, SessionRecord, Closing, Objects, Missing
    <2>6. BoardIsLevel'
      BY <2>4, SMTT(20) DEF MarkBoardSessionClosed, BoardIsLevel
    <2>7. EndHasPassed'
      BY <2>4, SMTT(20) DEF MarkBoardSessionClosed, CloseTypeOK, EndHasPassed
    <2>8. (\A q \in Passes : PassIsInOrder(q))'
      BY <2>4, SMTT(20) DEF MarkBoardSessionClosed, CloseTypeOK, PassIsInOrder, Saving, Archiving, Kept, Objects, Missing, ObjectsAreFinal, Closing
    <2>9. ObjectsAreFinal'
      BY <2>4, SMTT(20) DEF MarkBoardSessionClosed, CloseTypeOK, ObjectsAreFinal, Kept, Objects, Missing, PassIsInOrder, Saving, Archiving
    <2>10. ClosedIsSealed'
      BY <2>4, SMTT(20) DEF MarkBoardSessionClosed, CloseTypeOK, ClosedIsSealed, Kept, Objects, Missing, PassIsInOrder, Saving, Archiving, ObjectsAreFinal
    <2> QED
      BY <2>5, <2>6, <2>7, <2>8, <2>9, <2>10
  <1> QED
    BY <1>1, <1>2

LEMMA StoredKeeps ==
  ASSUME NEW p \in Passes, CloseInv, Stored(p)
  PROVE  CloseInv'
  <1> USE CloseAssumption DEF CloseInv
  <1>1. CloseTypeOK'
    BY SMTT(20) DEF Stored, Goes, Idle, CloseTypeOK, SessionRecord, Closing, Objects, Missing, BoardIsLevel
  <1>2. BoardIsLevel'
    BY SMTT(20) DEF Stored, Goes, Idle, CloseTypeOK, BoardIsLevel
  <1>3. EndHasPassed'
    BY SMTT(20) DEF Stored, Goes, Idle, CloseTypeOK, SessionRecord, EndHasPassed
  <1>4. (\A q \in Passes : PassIsInOrder(q))'
    BY SMTT(20) DEF Stored, Goes, Idle, CloseTypeOK, SessionRecord, PassIsInOrder, Saving, Archiving, Kept, Objects, Missing, ObjectsAreFinal, Closing
  <1>5. ObjectsAreFinal'
    BY SMTT(20) DEF Stored, Goes, Idle, CloseTypeOK, SessionRecord, ObjectsAreFinal, Kept, Objects, Missing, PassIsInOrder, Saving, Archiving, BoardIsLevel, EndHasPassed
  <1>6. ClosedIsSealed'
    BY SMTT(20) DEF Stored, Goes, Idle, CloseTypeOK, SessionRecord, ClosedIsSealed, Kept, Objects, Missing, PassIsInOrder, Saving, Archiving, ObjectsAreFinal
  <1> QED
    BY <1>1, <1>2, <1>3, <1>4, <1>5, <1>6

LEMMA StepFailsKeeps ==
  ASSUME NEW p \in Passes, CloseInv, StepFails(p)
  PROVE  CloseInv'
  <1> USE CloseAssumption DEF CloseInv
  <1>1. CloseTypeOK'
    BY SMTT(20) DEF StepFails, Fault, Goes, CloseTypeOK, SessionRecord, Closing, Objects, Missing, BoardIsLevel
  <1>2. BoardIsLevel'
    BY SMTT(20) DEF StepFails, Fault, Goes, CloseTypeOK, BoardIsLevel
  <1>3. EndHasPassed'
    BY SMTT(20) DEF StepFails, Fault, Goes, CloseTypeOK, SessionRecord, EndHasPassed
  <1>4. (\A q \in Passes : PassIsInOrder(q))'
    BY SMTT(20) DEF StepFails, Fault, Goes, CloseTypeOK, SessionRecord, PassIsInOrder, Saving, Archiving, Kept, Objects, Missing, ObjectsAreFinal, Closing
  <1>5. ObjectsAreFinal'
    BY SMTT(20) DEF StepFails, Fault, Goes, CloseTypeOK, SessionRecord, ObjectsAreFinal, Kept, Objects, Missing, PassIsInOrder, Saving, Archiving, BoardIsLevel, EndHasPassed
  <1>6. ClosedIsSealed'
    BY SMTT(20) DEF StepFails, Fault, Goes, CloseTypeOK, SessionRecord, ClosedIsSealed, Kept, Objects, Missing, PassIsInOrder, Saving, Archiving, ObjectsAreFinal
  <1> QED
    BY <1>1, <1>2, <1>3, <1>4, <1>5, <1>6

LEMMA RecordArchiveFailedKeeps ==
  ASSUME CloseInv, NEW p \in Passes, RecordArchiveFailed(p)
  PROVE  CloseInv'
  <1> USE CloseAssumption DEF CloseInv
  <1>1. CASE session.status \in {"closing", "archive_failed"}
    <2> DEFINE failed == [session EXCEPT !.status = "archive_failed", !.failedAt = now]
    <2>1. /\ session' = failed /\ pass' = [pass EXCEPT ![p] = Idle]
          /\ pending' \in BOOLEAN
      BY <1>1, Zenon DEF RecordArchiveFailed, Change
    <2>2. /\ now \in Nat /\ session \in SessionRecord
          /\ session.purged = FALSE /\ session.key = FALSE
          /\ session.status \in {"closing", "archive_failed"}
          /\ stored.status # "closed"
      <3>1. /\ now \in Nat /\ session \in SessionRecord /\ session.status # "closed"
            /\ stored.status # "closed"
        BY <1>1 DEF CloseTypeOK, ClosedIsSealed
      <3>2. session.key \in BOOLEAN /\ session.purged \in BOOLEAN
        BY <3>1, Zenon DEF SessionRecord
      <3>3. ~session.purged /\ ~session.key
        BY <3>1, Zenon DEF CloseTypeOK, EndHasPassed
      <3> QED
        BY <1>1, <3>1, <3>2, <3>3, Zenon
    <2>3. failed \in SessionRecord
      <3>1. "archive_failed" \in {"open", "closing", "archive_failed", "closed"}
        OBVIOUS
      <3> QED
        BY <2>2, <3>1, Zenon DEF SessionRecord
    <2>4. /\ session' \in SessionRecord /\ session'.status = "archive_failed"
          /\ ~session'.key /\ ~session'.purged
      BY <2>1, <2>2, <2>3, Zenon DEF SessionRecord
    <2> HIDE DEF failed
    <2>5. CloseTypeOK'
      BY <2>1, <2>2, <2>4, SMTT(20) DEF RecordArchiveFailed, Idle, CloseTypeOK, SessionRecord, Closing, Objects, Missing
    <2>6. BoardIsLevel'
      BY <2>1, <2>2, <2>4, SMTT(20) DEF RecordArchiveFailed, Idle, BoardIsLevel
    <2>7. EndHasPassed'
      BY <2>1, <2>2, <2>4, SMTT(20) DEF RecordArchiveFailed, Idle, CloseTypeOK, EndHasPassed
    <2>8. (\A q \in Passes : PassIsInOrder(q))'
      BY <2>1, <2>2, <2>4, SMTT(20) DEF RecordArchiveFailed, Idle, CloseTypeOK, PassIsInOrder, Saving, Archiving, Kept, Objects, Missing, ObjectsAreFinal, Closing
    <2>9. ObjectsAreFinal'
      BY <2>1, <2>2, <2>4, SMTT(20) DEF RecordArchiveFailed, Idle, CloseTypeOK, ObjectsAreFinal, Kept, Objects, Missing, PassIsInOrder, Saving, Archiving
    <2>10. ClosedIsSealed'
      BY <2>1, <2>2, <2>4, SMTT(20) DEF RecordArchiveFailed, Idle, CloseTypeOK, ClosedIsSealed, Kept, Objects, Missing, PassIsInOrder, Saving, Archiving, ObjectsAreFinal
    <2> QED
      BY <2>5, <2>6, <2>7, <2>8, <2>9, <2>10
  <1>2. CASE session.status \notin {"closing", "archive_failed"}
    <2>4. /\ UNCHANGED <<session, pending>> /\ pass' = [pass EXCEPT ![p] = Idle]
      BY <1>2, Zenon DEF RecordArchiveFailed
    <2>5. CloseTypeOK'
      BY <2>4, SMTT(20) DEF RecordArchiveFailed, Idle, CloseTypeOK, SessionRecord, Closing, Objects, Missing
    <2>6. BoardIsLevel'
      BY <2>4, SMTT(20) DEF RecordArchiveFailed, Idle, BoardIsLevel
    <2>7. EndHasPassed'
      BY <2>4, SMTT(20) DEF RecordArchiveFailed, Idle, CloseTypeOK, EndHasPassed
    <2>8. (\A q \in Passes : PassIsInOrder(q))'
      BY <2>4, SMTT(20) DEF RecordArchiveFailed, Idle, CloseTypeOK, PassIsInOrder, Saving, Archiving, Kept, Objects, Missing, ObjectsAreFinal, Closing
    <2>9. ObjectsAreFinal'
      BY <2>4, SMTT(20) DEF RecordArchiveFailed, Idle, CloseTypeOK, ObjectsAreFinal, Kept, Objects, Missing, PassIsInOrder, Saving, Archiving
    <2>10. ClosedIsSealed'
      BY <2>4, SMTT(20) DEF RecordArchiveFailed, Idle, CloseTypeOK, ClosedIsSealed, Kept, Objects, Missing, PassIsInOrder, Saving, Archiving, ObjectsAreFinal
    <2> QED
      BY <2>5, <2>6, <2>7, <2>8, <2>9, <2>10
  <1> QED
    BY <1>1, <1>2

-----------------------------------------------------------------------------
LEMMA NextKeeps == CloseInv /\ [CloseNext]_closeVars => CloseInv'
  <1> SUFFICES ASSUME CloseInv, [CloseNext]_closeVars PROVE CloseInv'
    OBVIOUS
  <1>1. CASE Admit
    BY <1>1, AdmitKeeps
  <1>2. CASE Accept
    BY <1>2, AcceptKeeps
  <1>3. CASE TimerSaves
    BY <1>3, TimerSavesKeeps
  <1>4. CASE Tick
    BY <1>4, TickKeeps
  <1>5. CASE Persist
    BY <1>5, PersistKeeps
  <1>6. CASE PersistFails
    BY <1>6, PersistFailsKeeps
  <1>7. CASE AdvanceLifecycle
    BY <1>7, AdvanceLifecycleKeeps
  <1>8. CASE RetryBoardSessionArchive
    BY <1>8, RetryBoardSessionArchiveKeeps
  <1>9. CASE Crash
    BY <1>9, CrashKeeps
  <1>10. ASSUME NEW p \in Passes, Pass(p) PROVE CloseInv'
    BY <1>10, ListDueKeeps, TurnKeeps, SealWritesKeeps, SaveBoardKeeps, ValidateKeeps,
       PutArchiveKeeps, MarkBoardSessionClosedKeeps, StoredKeeps, StepFailsKeeps,
       RecordArchiveFailedKeeps DEF Pass
  <1>11. CASE UNCHANGED closeVars
    BY <1>11 DEF closeVars, CloseInv, CloseTypeOK, BoardIsLevel, EndHasPassed,
       PassIsInOrder, ObjectsAreFinal, ClosedIsSealed, Kept
  <1> QED
    BY <1>1, <1>2, <1>3, <1>4, <1>5, <1>6, <1>7, <1>8, <1>9, <1>10, <1>11
    DEF CloseNext, Write, Documents

(* What the invariant says of the archive.                                 *)
LEMMA InvIsEnough ==
  ASSUME CloseInv
  PROVE  CloseTypeOK /\ ClosedIsWhole /\ ManifestVouches /\ RepeatsAreIdentical
  <1>1. CloseTypeOK
    BY DEF CloseInv
  <1>2. ClosedIsWhole
    BY DEF CloseInv, ClosedIsWhole, ClosedIsSealed, ObjectsAreFinal, BoardIsLevel, Whole
  <1>3. ManifestVouches
    BY DEF CloseInv, ManifestVouches, ObjectsAreFinal, Whole, Kept, Objects
  <1>4. RepeatsAreIdentical
    <2> SUFFICES ASSUME NEW p \in Passes, NEW o \in Objects, pass[p].at = o
                 PROVE  objects[o] \in {Missing, pass[p].seq}
      BY DEF RepeatsAreIdentical
    <2>1. pass[p].seq = board.seq
      BY DEF CloseInv, PassIsInOrder, Archiving, Saving, Objects
    <2> QED
      BY <2>1 DEF CloseInv, ObjectsAreFinal, Kept
  <1> QED
    BY <1>1, <1>2, <1>3, <1>4

(* A step of the documents takes the session record of the memory, which   *)
(* knows at least what they know.                                          *)
LEMMA StepsForward ==
  ASSUME CloseInv, CloseInv', [CloseNext]_closeVars
  PROVE  /\ stored.status = "closed" => stored'.status = "closed"
                                        /\ stored'.finalSeq = stored.finalSeq
         /\ stored.purged => stored'.purged
  <1>1. ~stored.purged
    BY DEF CloseInv, EndHasPassed
  <1>2. stored' = stored \/ stored' = session
    BY DEF CloseNext, closeVars, Write, Documents, Pass, Admit, Accept, TimerSaves, Tick,
       Persist, PersistAll, PersistFails, AdvanceLifecycle, RetryBoardSessionArchive,
       Crash, ListDue, Turn, SealWrites, SaveBoard, Validate, PutArchive,
       MarkBoardSessionClosed, Stored, StepFails, RecordArchiveFailed
  <1>3. stored.status = "closed" =>
          /\ session.status = "closed" /\ stored.finalSeq = board.seq
          /\ session.finalSeq = board.seq
    BY DEF CloseInv, ClosedIsSealed
  <1> QED
    BY <1>1, <1>2, <1>3

LEMMA InvHolds == CloseSpec => []CloseInv
  <1> QED
    BY InitInv, NextKeeps, PTL DEF CloseSpec

-----------------------------------------------------------------------------
(* Types, and a session record whose archive key, state and purge agree    *)
(* (store.mjs:1951, 2266).                                                 *)
THEOREM CloseTypes == CloseSpec => []CloseTypeOK
  <1> QED
    BY InvHolds, InvIsEnough, PTL

(* A session that is closed, in memory or in the documents, has its whole  *)
(* archive, made of everything its ledger holds, whatever failed or        *)
(* crashed while it closed and however many passes overlapped              *)
(* (close.mjs:236).                                                        *)
THEOREM ClosedWhole == CloseSpec => []ClosedIsWhole
  <1> QED
    BY InvHolds, InvIsEnough, PTL

(* A stored manifest has everything it vouches for (close.mjs:344).        *)
THEOREM ManifestIsLast == CloseSpec => []ManifestVouches
  <1> QED
    BY InvHolds, InvIsEnough, PTL

(* A close that is repeated never finds another content under the key of   *)
(* an object it puts (close.mjs:315).                                      *)
THEOREM PutsRepeat == CloseSpec => []RepeatsAreIdentical
  <1> QED
    BY InvHolds, InvIsEnough, PTL

(* The documents never take back a closed session, nor change its final    *)
(* sequence (store.mjs:1927).                                              *)
THEOREM OutcomesMoveForward == CloseSpec => StoredMovesForward
  <1>1. CloseInv /\ CloseInv' /\ [CloseNext]_closeVars =>
          [/\ stored.status = "closed" => stored'.status = "closed"
                                          /\ stored'.finalSeq = stored.finalSeq
           /\ stored.purged => stored'.purged]_closeVars
    BY StepsForward
  <1> QED
    BY <1>1, InvHolds, PTL DEF CloseSpec, StoredMovesForward

-----------------------------------------------------------------------------
(***************************************************************************)
(* Proofs about the outcomes of an event, for any number of passes,        *)
(* runners, jobs and any bounds: what can be restored is whole, what is    *)
(* offered exists, and a purged archive is gone.                           *)
(*                                                                         *)
(* The argument divides a behaviour in two.  Until the outcomes are        *)
(* condemned, by an elapsed window, by an elapsed retention or by a purge, *)
(* nothing but the close passes touches the archive, and their invariant   *)
(* CloseInv holds.  They are condemned by the clock alone, when every pass *)
(* rests and the documents know what memory knows; so a crash finds them   *)
(* condemned as well, for good, and nothing is put any more.  Its premises *)
(* are a window that is not empty and a store that writes every day.       *)
(***************************************************************************)

EventRecord ==
  [deletion : [at : {"none", "pending", "purged"}, due : Nat], failedAt : Nat \cup {Never}]

Condemned(s, e) ==
  \/ s.purged
  \/ e.deletion.at = "pending" /\ now >= e.deletion.due
  \/ /\ Retention > 0 /\ s.status = "closed" /\ ~s.purged
     /\ now >= s.archivedAt + Retention

(* Memory and documents agree on it.                                       *)
Gone == Condemned(session, event)
Agreed == Gone <=> Condemned(stored, storedEvent)

(* Only an archived session is asked to be deleted, in memory as on disk.  *)
Asked(s, e) == e.deletion.at = "pending" => s.key

OutcomeTypeOK ==
  /\ event \in EventRecord /\ storedEvent \in EventRecord
  /\ purge \in [at : {"idle", "archives", "canvases", "publication", "exports",
                      "marking", "storing", "ledger", "failed"},
                all : BOOLEAN, covers : BOOLEAN]

(* A finished export has its bytes, one that is being recorded has them or *)
(* has been deleted.                                                       *)
JobStatus == {"none", "queued", "processing", "failed", "succeeded", "deleted"}
RunnerJob(r) == job[runner[r].job]
Exports ==
  /\ job \in [Jobs -> [status : JobStatus, attempts : Nat, failedAt : Nat]]
  /\ \A j \in Jobs : job[j].status = "succeeded" => j \in pictures
  /\ runner \in [Runners -> [at : {"idle", "listed", "claiming", "reading", "putting",
                                   "recording"},
                             job : Jobs \cup {Never}, was : JobStatus]]
  /\ \A r \in Runners : runner[r].at # "idle" => runner[r].job \in Jobs
  /\ \A r \in Runners : runner[r].at = "recording" =>
       runner[r].job \in pictures \/ RunnerJob(r).status = "deleted"

Pages ==
  /\ publication \in [status : {"none", "published", "revoked"}, generation : Nat]
  /\ publisher \in [at : {"idle", "reading", "putting", "recording"}, generation : Nat]

(* What is published, or about to be, has its canvas.                      *)
Canvases ==
  /\ publication.status = "published" => publication.generation \in canvases
  /\ publisher.at = "recording" => publisher.generation \in canvases

(* After: the session is closed for good, everything rests.                *)
Resigned ==
  /\ CloseTypeOK
  /\ session.status = "closed" /\ stored.status = "closed"
  /\ stored.purged => session.purged
  /\ board.queued = 0 /\ board.saved <= board.seq
  /\ \A p \in Passes : pass[p].at = "idle"
  /\ session.purged => \A o \in Objects : ~Kept(o)
  /\ purge.at # "idle" => purge.covers
  /\ purge.at \in {"archives", "canvases", "publication", "exports", "marking"} => ~session.purged
  /\ purge.at \in {"canvases", "publication", "exports", "marking"} =>
       \A o \in Objects : ~Kept(o)

OutcomeInv ==
  /\ OutcomeTypeOK /\ Exports /\ Pages /\ Agreed
  /\ Asked(session, event) /\ Asked(stored, storedEvent)
  /\ ~Gone => CloseInv /\ Canvases /\ purge.at = "idle"
  /\ Gone => Resigned

-----------------------------------------------------------------------------
(* What most steps leave alone.                                            *)

LEMMA Unmoved ==
  ASSUME OutcomeInv, UNCHANGED <<now, session, stored, event, storedEvent>>
  PROVE  /\ Gone' <=> Gone
         /\ Agreed' /\ Asked(session, event)' /\ Asked(stored, storedEvent)'
         /\ event' \in EventRecord /\ storedEvent' \in EventRecord
  BY DEF OutcomeInv, Agreed, Gone, Condemned, Asked, OutcomeTypeOK

LEMMA ExportsUnmoved ==
  ASSUME Exports, UNCHANGED <<job, pictures, runner>>
  PROVE  Exports'
  BY DEF Exports, RunnerJob

LEMMA PagesUnmoved ==
  ASSUME Pages, UNCHANGED <<publication, publisher>>
  PROVE  Pages'
  BY DEF Pages

LEMMA CloseUnmoved ==
  ASSUME CloseInv, UNCHANGED closeVars
  PROVE  CloseInv'
  BY NextKeeps

(* No promise about the documents depends on whether a write is queued, or *)
(* on how many faults there were.                                          *)
LEMMA ClosedBesidesFaults ==
  ASSUME CloseInv, UNCHANGED <<now, session, stored, board, objects, pass>>,
         pending' \in BOOLEAN, faults' \in 0..MaxFaults
  PROVE  CloseInv'
  <1>1. CloseTypeOK'
    BY DEF CloseInv, CloseTypeOK
  <1>2. BoardIsLevel' /\ EndHasPassed' /\ ObjectsAreFinal' /\ ClosedIsSealed'
    BY DEF CloseInv, BoardIsLevel, EndHasPassed, ObjectsAreFinal, ClosedIsSealed, Kept
  <1>3. (\A p \in Passes : PassIsInOrder(p))'
    BY DEF CloseInv, PassIsInOrder, Kept
  <1> QED
    BY <1>1, <1>2, <1>3 DEF CloseInv

LEMMA FaultIsCounted ==
  ASSUME CloseTypeOK, Fault
  PROVE  faults' \in 0..MaxFaults
  BY CloseAssumption DEF CloseTypeOK, Fault

(* The purge does not know the close passes.                               *)
LEMMA ResignedUnmoved ==
  ASSUME Resigned, UNCHANGED <<now, session, stored, board, objects, pass, purge>>,
         pending' \in BOOLEAN, faults' \in 0..MaxFaults
  PROVE  Resigned'
  <1>1. CloseTypeOK'
    BY DEF Resigned, CloseTypeOK
  <1> QED
    BY <1>1 DEF Resigned, Kept

(* Steps that only publish or render, or queue a write.                    *)
LEMMA OutcomeSteps ==
  ASSUME OutcomeInv, Exports', Pages', Canvases => Canvases',
         UNCHANGED <<now, session, stored, board, objects, pass, event, storedEvent, purge>>,
         pending' \in BOOLEAN, faults' \in 0..MaxFaults
  PROVE  OutcomeInv'
  <1>1. /\ Gone' <=> Gone
        /\ Agreed' /\ Asked(session, event)' /\ Asked(stored, storedEvent)'
        /\ event' \in EventRecord /\ storedEvent' \in EventRecord
    BY Unmoved
  <1>2. OutcomeTypeOK'
    BY <1>1 DEF OutcomeInv, OutcomeTypeOK
  <1>3. CASE Gone
    <2>1. Resigned'
      BY <1>3, ResignedUnmoved DEF OutcomeInv
    <2> QED
      BY <1>1, <1>2, <1>3, <2>1 DEF OutcomeInv
  <1>4. CASE ~Gone
    <2>1. CloseInv'
      BY <1>4, ClosedBesidesFaults DEF OutcomeInv
    <2>2. Canvases' /\ purge'.at = "idle"
      BY <1>4 DEF OutcomeInv
    <2> QED
      BY <1>1, <1>2, <1>4, <2>1, <2>2 DEF OutcomeInv
  <1> QED
    BY <1>3, <1>4

LEMMA CloseTypesHold ==
  ASSUME OutcomeInv
  PROVE  CloseTypeOK
  BY DEF OutcomeInv, Resigned, CloseInv

-----------------------------------------------------------------------------
(* Publishing.                                                             *)
LEMMA PublicationKeeps ==
  ASSUME OutcomeInv, Publication
  PROVE  OutcomeInv'
  <1>1. UNCHANGED <<closeVars, event, storedEvent, purge, job, pictures, runner>>
    BY DEF Publication, ServePublication, ReadArchivedCanvas, PutCanvas, Publish, Revoke
  <1>2. Exports'
    BY <1>1, ExportsUnmoved DEF OutcomeInv
  <1>3. ASSUME Canvases  PROVE Canvases'
    <2>1. CASE ServePublication
      <3>1. publisher'.at = "reading" /\ UNCHANGED <<publication, canvases>>
        BY <2>1 DEF ServePublication, OutcomeInv, Pages
      <3> QED
        BY <1>3, <3>1 DEF Canvases
    <2>2. CASE ReadArchivedCanvas
      BY <1>3, <2>2 DEF ReadArchivedCanvas, Canvases, NoPublisher
    <2>3. CASE PutCanvas
      BY <1>3, <2>3 DEF PutCanvas, Canvases, OutcomeInv, Pages
    <2>4. CASE Publish
      BY <1>3, <2>4 DEF Publish, Canvases, NoPublisher
    <2>5. CASE Revoke
      BY <1>3, <2>5 DEF Revoke, Canvases
    <2> QED
      BY <2>1, <2>2, <2>3, <2>4, <2>5 DEF Publication
  <1>4. Pages'
    <2>1. CASE ServePublication
      BY <2>1 DEF ServePublication, OutcomeInv, Pages
    <2>2. CASE ReadArchivedCanvas
      BY <2>2 DEF ReadArchivedCanvas, OutcomeInv, Pages, NoPublisher
    <2>3. CASE PutCanvas
      BY <2>3 DEF PutCanvas, OutcomeInv, Pages
    <2>4. CASE Publish
      BY <2>4 DEF Publish, OutcomeInv, Pages, NoPublisher
    <2>5. CASE Revoke
      BY <2>5 DEF Revoke, OutcomeInv, Pages
    <2> QED
      BY <2>1, <2>2, <2>3, <2>4, <2>5 DEF Publication
  <1>5. pending' \in BOOLEAN /\ faults' \in 0..MaxFaults
    BY <1>1, CloseTypesHold DEF closeVars, CloseTypeOK
  <1> QED
    BY <1>1, <1>2, <1>3, <1>4, <1>5, OutcomeSteps DEF closeVars

-----------------------------------------------------------------------------
(* Rendering.                                                              *)

JobRecord == [status : JobStatus, attempts : Nat, failedAt : Nat]
RunnerRecord == [at : {"idle", "listed", "claiming", "reading", "putting", "recording"},
                 job : Jobs \cup {Never}, was : JobStatus]

(* Whatever is not made a success by the step, and keeps what was deleted, *)
(* keeps the pictures in order.                                            *)
LEMMA JobsMoveOn ==
  ASSUME Exports, job' \in [Jobs -> JobRecord],
         \A j \in Jobs : job'[j].status = "succeeded" => job[j].status = "succeeded",
         \A j \in Jobs : job[j].status = "deleted" => job'[j].status = "deleted",
         \A j \in Jobs : j \in pictures => j \in pictures' \/ job'[j].status = "deleted",
         runner' \in [Runners -> RunnerRecord],
         \A r \in Runners : runner'[r].at # "idle" => runner'[r].job \in Jobs,
         \A r \in Runners : runner'[r].at = "recording" =>
           runner'[r].job = runner[r].job
           /\ (runner[r].at = "recording" \/ runner'[r].job \in pictures')
  PROVE  Exports'
  <1>1. \A j \in Jobs : job'[j].status = "succeeded" => j \in pictures'
    BY DEF Exports
  <1>2. ASSUME NEW r \in Runners, runner'[r].at = "recording"
        PROVE  runner'[r].job \in pictures' \/ job'[runner'[r].job].status = "deleted"
    <2>1. runner'[r].job \in Jobs
      BY <1>2
    <2> QED
      BY <1>2, <2>1 DEF Exports, RunnerJob
  <1> QED
    BY <1>1, <1>2 DEF Exports, RunnerJob, JobRecord, RunnerRecord

LEMMA RunnerKeepsExports ==
  ASSUME OutcomeInv, NEW r \in Runners, Runner(r)
  PROVE  Exports'
  <1>1. /\ job \in [Jobs -> JobRecord] /\ runner \in [Runners -> RunnerRecord]
        /\ \A q \in Runners : runner[q].at # "idle" => runner[q].job \in Jobs
        /\ now \in Nat
    BY CloseAssumption DEF OutcomeInv, Exports, JobRecord, RunnerRecord, Resigned, CloseInv,
       CloseTypeOK
  <1>2. Resting \in RunnerRecord /\ Resting.at = "idle"
    BY DEF Resting, RunnerRecord, JobStatus
  <1>3. Exports
    BY DEF OutcomeInv
  <1>4. CASE ListDueExports(r)
    <2>1. PICK j \in Jobs : runner' = [runner EXCEPT ![r] =
                              [at |-> "listed", job |-> j, was |-> job[j].status]]
      BY <1>4 DEF ListDueExports
    <2>2. job[j].status \in JobStatus
      BY <1>1 DEF JobRecord, JobStatus
    <2>3. [at |-> "listed", job |-> j, was |-> job[j].status] \in RunnerRecord
      BY <2>2 DEF RunnerRecord
    <2>4. UNCHANGED <<job, pictures>>
      BY <1>4 DEF ListDueExports
    <2>5. runner' \in [Runners -> RunnerRecord] /\ runner'[r].at = "listed" /\ runner'[r].job \in Jobs
          /\ \A q \in Runners \ {r} : runner'[q] = runner[q]
      BY <1>1, <2>1, <2>3
    <2> QED
      BY <1>1, <1>3, <2>4, <2>5, JobsMoveOn
  <1>5. CASE \/ ExportTurn(r) \/ ClaimsOrphan(r) \/ ReadVerifiedArchiveCanvas(r)
             \/ MarkExportSucceeded(r) \/ ExportFails(r) \/ PutPicture(r)
    <2> DEFINE j == runner[r].job
    <2>1. runner[r].at # "idle" /\ j \in Jobs
      BY <1>1, <1>5 DEF ExportTurn, ClaimsOrphan, ReadVerifiedArchiveCanvas, MarkExportSucceeded,
                        ExportFails, PutPicture
    <2>2. \/ Rests(r)
          \/ \E step \in {"reading", "claiming", "putting"} : Runs(r, step)
          \/ PutPicture(r)
      BY <1>5 DEF ExportTurn, ClaimsOrphan, ReadVerifiedArchiveCanvas, MarkExportSucceeded,
                  ExportFails, MarkExportFailed, MarkExportProcessing, RequeueOrphanedExport
    <2>3. /\ runner' \in [Runners -> RunnerRecord]
          /\ \A q \in Runners \ {r} : runner'[q] = runner[q]
          /\ runner'[r].at # "idle" => runner'[r].job = j
          /\ runner'[r].at = "recording" => PutPicture(r)
      <3>1. CASE Rests(r)
        BY <1>1, <1>2, <3>1 DEF Rests
      <3>2. CASE \E step \in {"reading", "claiming", "putting"} : Runs(r, step)
        BY <1>1, <3>2 DEF Runs, RunnerRecord
      <3>3. CASE PutPicture(r)
        BY <1>1, <3>3 DEF PutPicture, Runs, RunnerRecord
      <3> QED
        BY <2>2, <3>1, <3>2, <3>3
    <2>4. CASE PutPicture(r)
      <3>1. UNCHANGED job /\ pictures' = pictures \cup {j}
        BY <2>4 DEF PutPicture
      <3> QED
        BY <1>1, <1>3, <2>1, <2>3, <3>1, JobsMoveOn
    <2>5. CASE MarkExportSucceeded(r)
      <3>1. UNCHANGED pictures /\ runner[r].at = "recording"
        BY <2>5 DEF MarkExportSucceeded
      <3>2. runner'[r].at = "idle"
        BY <1>1, <1>2, <2>5 DEF MarkExportSucceeded, Rests
      <3>3. CASE job[j].status = "deleted"
        <4>1. UNCHANGED job
          BY <2>5, <3>3 DEF MarkExportSucceeded
        <4> QED
          BY <1>1, <1>3, <2>1, <2>3, <3>1, <3>2, <4>1, JobsMoveOn
      <3>4. CASE job[j].status # "deleted"
        <4>1. job' = [job EXCEPT ![j].status = "succeeded", ![j].failedAt = 0]
          BY <2>5, <3>4 DEF MarkExportSucceeded
        <4>2. j \in pictures
          BY <1>3, <3>1, <3>4 DEF Exports, RunnerJob
        <4>3. job' \in [Jobs -> JobRecord] /\ job'[j].status = "succeeded"
              /\ \A k \in Jobs \ {j} : job'[k] = job[k]
          BY <1>1, <2>1, <4>1 DEF JobRecord, JobStatus
        <4>4. \A k \in Jobs : job'[k].status = "succeeded" => k \in pictures'
          BY <1>3, <3>1, <4>2, <4>3 DEF Exports
        <4>5. ASSUME NEW q \in Runners, runner'[q].at = "recording"
              PROVE  runner'[q].job \in pictures' \/ job'[runner'[q].job].status = "deleted"
          <5>1. q # r /\ runner'[q] = runner[q] /\ runner[q].job \in Jobs
            BY <1>1, <2>3, <3>2, <4>5
          <5> QED
            BY <1>3, <3>1, <4>2, <4>3, <4>5, <5>1 DEF Exports, RunnerJob
        <4> QED
          BY <1>1, <2>1, <2>3, <4>3, <4>4, <4>5 DEF Exports, RunnerJob, JobRecord, RunnerRecord
      <3> QED
        BY <3>3, <3>4
    <2>6. CASE ExportTurn(r) /\ OutcomesInvalidated /\ Delete({j})
      <3>1. runner'[r].at # "recording"
        BY <1>1, <1>2, <2>3, <2>6 DEF ExportTurn, PutPicture
      <3>2. /\ job' \in [Jobs -> JobRecord]
            /\ \A k \in Jobs : job'[k].status = "succeeded" => job[k].status = "succeeded"
            /\ \A k \in Jobs : job[k].status = "deleted" => job'[k].status = "deleted"
            /\ \A k \in Jobs : k \in pictures => k \in pictures' \/ job'[k].status = "deleted"
        BY <1>1, <2>6 DEF Delete, JobRecord, NoJob, JobStatus
      <3> QED
        BY <1>1, <1>3, <2>1, <2>3, <3>1, <3>2, JobsMoveOn
    <2>7. CASE \/ ClaimsOrphan(r) \/ ReadVerifiedArchiveCanvas(r) \/ ExportFails(r)
               \/ ExportTurn(r) /\ ~(OutcomesInvalidated /\ Delete({j}))
      <3>1. UNCHANGED pictures
        BY <2>7 DEF ClaimsOrphan, ReadVerifiedArchiveCanvas, ExportFails, ExportTurn
      <3>2. \/ UNCHANGED job
            \/ /\ job[j].status \in {"queued", "failed", "processing"}
               /\ \/ job' = [job EXCEPT ![j].status = "processing", ![j].attempts = @ + 1]
                  \/ job' = [job EXCEPT ![j].status = "failed", ![j].failedAt = now]
                  \/ job' = [job EXCEPT ![j].status = "queued"]
        <4>1. CASE ExportTurn(r) /\ ~(OutcomesInvalidated /\ Delete({j}))
          BY <4>1 DEF ExportTurn, RequeueOrphanedExport, MarkExportProcessing
        <4>2. CASE ClaimsOrphan(r)
          BY <4>2 DEF ClaimsOrphan, MarkExportProcessing
        <4>3. CASE ReadVerifiedArchiveCanvas(r)
          BY <4>3 DEF ReadVerifiedArchiveCanvas, MarkExportFailed
        <4>4. CASE ExportFails(r)
          BY <4>4 DEF ExportFails, MarkExportFailed
        <4> QED
          BY <2>7, <4>1, <4>2, <4>3, <4>4
      <3>3. /\ job' \in [Jobs -> JobRecord]
            /\ \A k \in Jobs : job'[k].status = "succeeded" => job[k].status = "succeeded"
            /\ \A k \in Jobs : job[k].status = "deleted" => job'[k].status = "deleted"
        BY <1>1, <2>1, <3>2 DEF JobRecord, JobStatus
      <3>4. runner'[r].at # "recording"
        <4>1. \/ Rests(r)
              \/ \E step \in {"reading", "claiming", "putting"} : Runs(r, step)
          BY <2>7 DEF ExportTurn, ClaimsOrphan, ReadVerifiedArchiveCanvas, ExportFails,
                      MarkExportFailed, MarkExportProcessing, RequeueOrphanedExport
        <4>2. ASSUME NEW step \in {"reading", "claiming", "putting"}, Runs(r, step)
              PROVE  runner'[r].at # "recording"
          BY <1>1, <4>2 DEF Runs, RunnerRecord
        <4> QED
          BY <1>1, <1>2, <4>1, <4>2 DEF Rests
      <3> QED
        BY <1>1, <1>3, <2>1, <2>3, <3>1, <3>3, <3>4, JobsMoveOn
    <2> QED
      BY <1>5, <2>4, <2>5, <2>6, <2>7 DEF ExportTurn
  <1> QED
    BY <1>4, <1>5 DEF Runner

LEMMA RunnerKeeps ==
  ASSUME OutcomeInv, NEW r \in Runners, Runner(r)
  PROVE  OutcomeInv'
  <1>1. UNCHANGED <<now, session, stored, board, objects, pass, event, storedEvent, purge,
                    publication, publisher, canvases, pending>>
    BY DEF Runner, ListDueExports, ExportTurn, ClaimsOrphan, ReadVerifiedArchiveCanvas, PutPicture,
           MarkExportSucceeded, ExportFails, closeVars
  <1>2. faults' = faults \/ Fault
    BY DEF Runner, ListDueExports, ExportTurn, ClaimsOrphan, ReadVerifiedArchiveCanvas, PutPicture,
           MarkExportSucceeded, ExportFails, closeVars
  <1>3. pending' \in BOOLEAN /\ faults' \in 0..MaxFaults
    BY <1>1, <1>2, CloseTypesHold, FaultIsCounted DEF CloseTypeOK
  <1>4. Pages' /\ (Canvases => Canvases')
    BY <1>1 DEF OutcomeInv, Pages, Canvases
  <1> QED
    BY <1>1, <1>3, <1>4, RunnerKeepsExports, OutcomeSteps

(* Deleting a job takes its bytes along.                                   *)
LEMMA Deleted ==
  ASSUME Exports, NEW js \in SUBSET Jobs, Delete(js), UNCHANGED runner
  PROVE  Exports'
  <1>1. job \in [Jobs -> JobRecord] /\ runner \in [Runners -> RunnerRecord]
        /\ \A q \in Runners : runner[q].at # "idle" => runner[q].job \in Jobs
    BY DEF Exports, JobRecord, RunnerRecord
  <1>2. /\ job' \in [Jobs -> JobRecord]
        /\ \A k \in Jobs : job'[k].status = "succeeded" => job[k].status = "succeeded"
        /\ \A k \in Jobs : job[k].status = "deleted" => job'[k].status = "deleted"
        /\ \A k \in Jobs : k \in pictures => k \in pictures' \/ job'[k].status = "deleted"
    BY <1>1 DEF Delete, JobRecord, NoJob, JobStatus
  <1> QED
    BY <1>1, <1>2, JobsMoveOn

LEMMA ExportRequestsKeep ==
  ASSUME OutcomeInv, CreateExport \/ DeleteExport
  PROVE  OutcomeInv'
  <1>1. UNCHANGED <<closeVars, event, storedEvent, purge, publication, publisher, canvases>>
    BY DEF CreateExport, DeleteExport
  <1>2. Exports'
    <2>1. CASE CreateExport
      <3>1. job \in [Jobs -> JobRecord] /\ runner \in [Runners -> RunnerRecord]
            /\ \A q \in Runners : runner[q].at # "idle" => runner[q].job \in Jobs
        BY DEF OutcomeInv, Exports, JobRecord, RunnerRecord
      <3>2. /\ job' \in [Jobs -> JobRecord] /\ UNCHANGED <<runner, pictures>>
            /\ \A k \in Jobs : job'[k].status = "succeeded" => job[k].status = "succeeded"
            /\ \A k \in Jobs : job[k].status = "deleted" => job'[k].status = "deleted"
        BY <2>1, <3>1 DEF CreateExport, JobRecord, JobStatus
      <3> QED
        BY <3>1, <3>2, JobsMoveOn DEF OutcomeInv
    <2>2. CASE DeleteExport
      BY <2>2, Deleted DEF DeleteExport, OutcomeInv
    <2> QED
      BY <2>1, <2>2
  <1>3. pending' \in BOOLEAN /\ faults' \in 0..MaxFaults
    BY <1>1, CloseTypesHold DEF closeVars, CloseTypeOK
  <1>4. Pages' /\ (Canvases => Canvases')
    BY <1>1 DEF OutcomeInv, Pages, Canvases
  <1> QED
    BY <1>1, <1>2, <1>3, <1>4, OutcomeSteps DEF closeVars

-----------------------------------------------------------------------------
(* The owner's requests: one asks for a deletion that is not due yet, one  *)
(* takes a deletion back that is not due yet, one forgets a failure.       *)
LEMMA OwnerKeeps ==
  ASSUME OutcomeInv, Owner, DeleteWindow > 0
  PROVE  OutcomeInv'
  <1>1. /\ UNCHANGED <<now, session, stored, board, objects, pass, faults, storedEvent,
                       publication, canvases, publisher, job, pictures, runner, purge>>
        /\ pending' = TRUE
    BY DEF Owner, RequestEventOutcomeDeletion, RestoreEventOutcomeDeletion,
           RetryEventOutcomePurge, ChangeEvent
  <1>2. now \in Nat /\ event \in EventRecord /\ faults \in 0..MaxFaults
    BY CloseTypesHold, CloseAssumption DEF CloseTypeOK, OutcomeInv, OutcomeTypeOK
  <1>3. /\ event' \in EventRecord
        /\ (event'.deletion.at = "pending" /\ now >= event'.deletion.due)
             <=> (event.deletion.at = "pending" /\ now >= event.deletion.due)
        /\ event'.deletion.at = "pending" => event.deletion.at = "pending" \/ session.key
    <2>1. CASE RequestEventOutcomeDeletion
      <3>1. event' = [event EXCEPT !.deletion = [at |-> "pending", due |-> now + DeleteWindow]]
            /\ event.deletion.at = "none" /\ session.key
        BY <2>1 DEF RequestEventOutcomeDeletion, ChangeEvent, HasPurgeableOutcomes, Archived
      <3>2. now + DeleteWindow \in Nat /\ ~(now >= now + DeleteWindow)
        BY <1>2, RetentionAssumption
      <3> QED
        BY <1>2, <3>1, <3>2 DEF EventRecord
    <2>2. CASE RestoreEventOutcomeDeletion
      <3>1. event' = [deletion |-> NoDeletion, failedAt |-> Never]
            /\ event.deletion.at = "pending" /\ now < event.deletion.due
        BY <2>2 DEF RestoreEventOutcomeDeletion, ChangeEvent, DeletionPending
      <3>2. ~(now >= event.deletion.due)
        BY <1>2, <3>1 DEF EventRecord
      <3> QED
        BY <3>1, <3>2 DEF EventRecord, NoDeletion
    <2>3. CASE RetryEventOutcomePurge
      BY <1>2, <2>3 DEF RetryEventOutcomePurge, ChangeEvent, EventRecord
    <2> QED
      BY <2>1, <2>2, <2>3 DEF Owner
  <1>4. (Gone' <=> Gone) /\ Agreed' /\ Asked(session, event)' /\ Asked(stored, storedEvent)'
    BY <1>1, <1>3 DEF OutcomeInv, Gone, Agreed, Condemned, Asked
  <1>5. OutcomeTypeOK' /\ Exports' /\ Pages'
    BY <1>1, <1>3, ExportsUnmoved, PagesUnmoved DEF OutcomeInv, OutcomeTypeOK
  <1>6. CASE Gone
    <2>1. Resigned'
      BY <1>1, <1>2, <1>6, ResignedUnmoved DEF OutcomeInv
    <2> QED
      BY <1>4, <1>5, <1>6, <2>1 DEF OutcomeInv
  <1>7. CASE ~Gone
    <2>1. CloseInv'
      BY <1>1, <1>2, <1>7, ClosedBesidesFaults DEF OutcomeInv
    <2>2. Canvases' /\ purge'.at = "idle"
      BY <1>1, <1>7 DEF OutcomeInv, Canvases
    <2> QED
      BY <1>4, <1>5, <1>7, <2>1, <2>2 DEF OutcomeInv
  <1> QED
    BY <1>6, <1>7

-----------------------------------------------------------------------------
(* The close.  No pass condemns anything, and condemned outcomes have no   *)
(* pass: a session that is closed now is not as old as the retention.      *)
LEMMA SessionMoves ==
  ASSUME CloseTypeOK, CloseStep
  PROVE  /\ UNCHANGED <<now, stored>>
         /\ \/ session' = session
            \/ /\ session.status # "closed" /\ session'.purged = session.purged
               /\ session'.status # "closed" \/ session'.archivedAt = now
  <1>1. session \in SessionRecord
    BY DEF CloseTypeOK
  <1>2. CASE Write \/ PersistFails
    BY <1>2 DEF Write, Admit, Accept, TimerSaves, PersistFails
  <1>3. CASE AdvanceLifecycle \/ RetryBoardSessionArchive
    BY <1>1, <1>3 DEF AdvanceLifecycle, RetryBoardSessionArchive, Over, Change, SessionRecord
  <1>4. ASSUME NEW p \in Passes, Pass(p)
        PROVE  /\ UNCHANGED <<now, stored>>
               /\ \/ session' = session
                  \/ /\ session.status # "closed" /\ session'.purged = session.purged
                     /\ session'.status # "closed" \/ session'.archivedAt = now
    <2>1. CASE MarkBoardSessionClosed(p)
      BY <1>1, <2>1 DEF MarkBoardSessionClosed, Change, SessionRecord
    <2>2. CASE RecordArchiveFailed(p)
      BY <1>1, <2>2 DEF RecordArchiveFailed, Change, SessionRecord
    <2>3. CASE ListDue(p) \/ Turn(p) \/ SealWrites(p) \/ SaveBoard(p) \/ Validate(p)
      BY <2>3 DEF ListDue, Turn, SealWrites, SaveBoard, Validate
    <2>4. CASE PutArchive(p) \/ Stored(p) \/ StepFails(p)
      BY <2>4 DEF PutArchive, Stored, StepFails
    <2> QED
      BY <1>4, <2>1, <2>2, <2>3, <2>4 DEF Pass
  <1> QED
    BY <1>2, <1>3, <1>4 DEF CloseStep

(* A close that condemned outcomes still see: the save timer, and a write  *)
(* of the documents that fails.                                            *)
LEMMA ResignedClose ==
  ASSUME Resigned, CloseStep
  PROVE  Resigned'
  <1>1. \A p \in Passes : ~Pass(p)
    <2> SUFFICES ASSUME NEW p \in Passes, Pass(p)
                 PROVE  FALSE
      OBVIOUS
    <2>1. pass[p].at = "idle" /\ ~DueToClose
      BY DEF Resigned, DueToClose
    <2> QED
      BY <2>1 DEF Pass, ListDue, Turn, SealWrites, SaveBoard, Validate, PutArchive,
                  MarkBoardSessionClosed, Stored, RecordArchiveFailed, StepFails, Objects
  <1>2. ~AdvanceLifecycle /\ ~RetryBoardSessionArchive /\ ~Admit
    BY DEF Resigned, AdvanceLifecycle, RetryBoardSessionArchive, Over, Admit
  <1>3. ~Accept
    BY DEF Resigned, Accept
  <1>4. CASE TimerSaves
    <2>1. Saved(board) \in [seq : 0..MaxWrites, ledger : 0..MaxWrites, items : BOOLEAN,
                            saved : 0..MaxWrites, queued : 0..MaxWrites, sealed : BOOLEAN]
          /\ Saved(board).queued = 0 /\ Saved(board).saved <= Saved(board).seq
      BY CloseAssumption DEF Resigned, CloseTypeOK, Saved
    <2>2. CloseTypeOK'
      BY <1>4, <2>1 DEF TimerSaves, Resigned, CloseTypeOK
    <2> QED
      BY <1>4, <2>1, <2>2 DEF TimerSaves, Resigned, Kept, CloseStep, outcomeVars
  <1>5. CASE PersistFails
    <2>1. pending' \in BOOLEAN /\ faults' \in 0..MaxFaults
      BY <1>5, FaultIsCounted DEF PersistFails, Resigned
    <2> QED
      BY <1>5, <2>1, ResignedUnmoved DEF PersistFails, CloseStep, outcomeVars
  <1> QED
    BY <1>1, <1>2, <1>3, <1>4, <1>5 DEF CloseStep, Write

LEMMA CloseStepKeeps ==
  ASSUME OutcomeInv, CloseStep
  PROVE  OutcomeInv'
  <1>1. CloseTypeOK
    BY CloseTypesHold
  <1>2. UNCHANGED <<now, stored, outcomeVars>>
    BY <1>1, SessionMoves DEF CloseStep
  <1>3. OutcomeTypeOK' /\ Exports' /\ Pages' /\ Asked(stored, storedEvent)'
    BY <1>2, ExportsUnmoved, PagesUnmoved DEF OutcomeInv, OutcomeTypeOK, outcomeVars, Asked
  <1>4. CASE Gone
    <2>1. Resigned /\ session' = session
      BY <1>1, <1>4, SessionMoves DEF OutcomeInv, Resigned
    <2>2. Resigned'
      BY <2>1, ResignedClose
    <2>3. Gone' /\ Agreed' /\ Asked(session, event)'
      BY <1>2, <1>4, <2>1 DEF OutcomeInv, Gone, Agreed, Condemned, Asked, outcomeVars
    <2> QED
      BY <1>3, <2>2, <2>3 DEF OutcomeInv
  <1>5. CASE ~Gone
    <2>1. CloseInv'
      BY <1>5, NextKeeps DEF OutcomeInv, CloseStep, CloseNext, Documents
    <2>2. Canvases' /\ purge'.at = "idle"
      BY <1>2, <1>5 DEF OutcomeInv, Canvases, outcomeVars
    <2>3. Asked(session, event)'
      BY <1>1, <1>2, SessionMoves DEF OutcomeInv, Asked, outcomeVars, CloseTypeOK
    <2>4. ~(now >= now + Retention) \/ ~(Retention > 0)
      BY <1>1, CloseAssumption, RetentionAssumption DEF CloseTypeOK
    <2>5. ~Gone'
      BY <1>1, <1>2, <1>5, <2>4, SessionMoves DEF Gone, Condemned, outcomeVars
    <2>6. Agreed'
      BY <1>2, <1>5, <2>5 DEF OutcomeInv, Agreed, Gone, Condemned, outcomeVars
    <2> QED
      BY <1>3, <2>1, <2>2, <2>3, <2>5, <2>6 DEF OutcomeInv
  <1> QED
    BY <1>4, <1>5

-----------------------------------------------------------------------------
(* The clock.  A day on which outcomes become condemned is one on which    *)
(* everything rests and everything is stored.                              *)
LEMMA TimeCondemns ==
  ASSUME NEW s, NEW e, s \in SessionRecord, e \in EventRecord, now \in Nat,
         now' = now + 1, Condemned(s, e)
  PROVE  \/ s.purged
         \/ e.deletion.at = "pending" /\ now' >= e.deletion.due
         \/ /\ Retention > 0 /\ s.status = "closed" /\ ~s.purged
            /\ now' >= s.archivedAt + Retention
  BY RetentionAssumption DEF Condemned, SessionRecord, EventRecord

LEMMA OutcomeTickKeeps ==
  ASSUME OutcomeInv, OutcomeTick, ~Quiet
  PROVE  OutcomeInv'
  <1>1. CloseTypeOK /\ now \in Nat /\ event \in EventRecord /\ storedEvent \in EventRecord
    BY CloseTypesHold, CloseAssumption DEF CloseTypeOK, OutcomeInv, OutcomeTypeOK
  <1>2. /\ UNCHANGED <<session, stored, pending, board, objects, pass, faults, outcomeVars>>
        /\ now' = now + 1 /\ stored = session /\ storedEvent = event
        /\ \A p \in Passes : pass[p].at = "idle"
    BY DEF OutcomeTick, Tick
  <1>3. /\ OutcomeTypeOK' /\ Exports' /\ Pages'
        /\ Asked(session, event)' /\ Asked(stored, storedEvent)' /\ Agreed'
    BY <1>2, ExportsUnmoved, PagesUnmoved
       DEF OutcomeInv, OutcomeTypeOK, outcomeVars, Asked, Agreed, Gone, Condemned
  <1>4. now' \in 0..Horizon
    BY <1>1, CloseAssumption DEF OutcomeTick, Tick, CloseTypeOK
  <1>5. CASE Gone
    <2>1. Gone'
      BY <1>1, <1>2, <1>5, TimeCondemns DEF Gone, Condemned, outcomeVars, CloseTypeOK
    <2>2. Resigned'
      BY <1>2, <1>4, <1>5 DEF OutcomeInv, Resigned, CloseTypeOK, outcomeVars, Kept
    <2> QED
      BY <1>3, <2>1, <2>2 DEF OutcomeInv
  <1>6. CASE ~Gone
    <2>1. CloseInv /\ CloseInv'
      BY <1>6, NextKeeps DEF OutcomeInv, OutcomeTick, CloseNext
    <2>2. Canvases' /\ purge'.at = "idle"
      BY <1>2, <1>6 DEF OutcomeInv, Canvases, outcomeVars
    <2>3. ASSUME Gone' PROVE Resigned'
      <3>1. ~session.purged /\ session.status = "closed"
        BY <1>1, <1>2, <2>1, <2>3 DEF Gone, Condemned, OutcomeInv, Asked, CloseInv, EndHasPassed,
                                CloseTypeOK, outcomeVars
      <3>2. board.queued = 0 /\ board.saved <= board.seq
        BY <2>1, <3>1 DEF CloseInv, ClosedIsSealed, ObjectsAreFinal, BoardIsLevel, Objects
      <3>3. CloseTypeOK'
        BY <2>1 DEF CloseInv
      <3> QED
        BY <1>2, <2>2, <3>1, <3>2, <3>3 DEF Resigned
    <2> QED
      BY <1>3, <2>1, <2>2, <2>3 DEF OutcomeInv
  <1> QED
    BY <1>5, <1>6

-----------------------------------------------------------------------------
(* The documents.                                                          *)
LEMMA OutcomePersistKeeps ==
  ASSUME OutcomeInv, OutcomePersist
  PROVE  OutcomeInv'
  <1>1. /\ UNCHANGED <<now, session, board, objects, pass, faults, event, publication, canvases,
                       publisher, job, pictures, runner, purge>>
        /\ stored' = session /\ storedEvent' = event /\ pending' = FALSE
    BY DEF OutcomePersist, PersistAll
  <1>2. CloseTypeOK
    BY CloseTypesHold
  <1>3. (Gone' <=> Gone) /\ Agreed' /\ Asked(session, event)' /\ Asked(stored, storedEvent)'
    BY <1>1 DEF OutcomeInv, Gone, Agreed, Condemned, Asked
  <1>4. OutcomeTypeOK' /\ Exports' /\ Pages'
    BY <1>1, ExportsUnmoved, PagesUnmoved DEF OutcomeInv, OutcomeTypeOK
  <1>5. CASE Gone
    <2>1. CloseTypeOK'
      BY <1>1, <1>2 DEF CloseTypeOK
    <2> QED
      BY <1>1, <1>3, <1>4, <1>5, <2>1 DEF OutcomeInv, Resigned, Kept
  <1>6. CASE ~Gone
    <2>1. CloseInv'
      <3>1. CASE pending \/ stored # session
        BY <1>1, <1>6, <3>1, NextKeeps DEF OutcomeInv, CloseNext, Documents, Persist, PersistAll
      <3>2. CASE ~(pending \/ stored # session)
        BY <1>1, <1>2, <1>6, <3>2, ClosedBesidesFaults DEF OutcomeInv, CloseTypeOK
      <3> QED
        BY <3>1, <3>2
    <2>2. Canvases' /\ purge'.at = "idle"
      BY <1>1, <1>6 DEF OutcomeInv, Canvases
    <2> QED
      BY <1>3, <1>4, <1>6, <2>1, <2>2 DEF OutcomeInv
  <1> QED
    BY <1>5, <1>6

(* A restart finds what memory knew about the end of the outcomes.         *)
LEMMA OutcomeCrashKeeps ==
  ASSUME OutcomeInv, OutcomeCrash
  PROVE  OutcomeInv'
  <1>1. /\ UNCHANGED <<now, stored, objects, storedEvent, publication, canvases, job, pictures>>
        /\ session' = Restarted(stored) /\ pending' = (session' # stored)
        /\ board' = Reloaded(board) /\ pass' = [p \in Passes |-> Idle] /\ event' = storedEvent
        /\ publisher' = NoPublisher /\ runner' = [r \in Runners |-> Resting] /\ purge' = NoPurge
    BY DEF OutcomeCrash, Crash
  <1>2. CloseTypeOK /\ stored \in SessionRecord
    BY CloseTypesHold DEF CloseTypeOK
  <1>3. /\ session'.purged = stored.purged /\ session'.key = stored.key
        /\ session'.archivedAt = stored.archivedAt
        /\ session'.status = "closed" <=> stored.status = "closed"
    BY <1>1, <1>2 DEF Restarted, SessionRecord
  <1>4. Asked(session, event)' /\ Asked(stored, storedEvent)'
    BY <1>1, <1>3 DEF OutcomeInv, Asked
  <1>5. (Gone' <=> Gone) /\ Agreed'
    BY <1>1, <1>3 DEF OutcomeInv, Gone, Agreed, Condemned
  <1>6. OutcomeTypeOK'
    BY <1>1 DEF OutcomeInv, OutcomeTypeOK, NoPurge
  <1>7. Pages'
    BY <1>1 DEF OutcomeInv, Pages, NoPublisher
  <1>8. Exports'
    <2>1. \A r \in Runners : runner'[r] = Resting
      BY <1>1
    <2>2. Resting.at = "idle" /\ Resting \in RunnerRecord
      BY DEF Resting, RunnerRecord, JobStatus
    <2> QED
      BY <1>1, <2>1, <2>2 DEF OutcomeInv, Exports, RunnerRecord
  <1>9. CASE ~Gone
    <2>1. CloseInv'
      BY <1>9, NextKeeps DEF OutcomeInv, CloseNext, OutcomeCrash
    <2>2. Canvases' /\ purge'.at = "idle"
      BY <1>1, <1>9 DEF OutcomeInv, Canvases, NoPublisher, NoPurge
    <2> QED
      BY <1>4, <1>5, <1>6, <1>7, <1>8, <1>9, <2>1, <2>2 DEF OutcomeInv
  <1>10. CASE Gone
    <2>1. session' = stored /\ Resigned
      BY <1>1, <1>10 DEF OutcomeInv, Resigned, Restarted
    <2>2. board' \in [seq : 0..MaxWrites, ledger : 0..MaxWrites, items : BOOLEAN,
                      saved : 0..MaxWrites, queued : 0..MaxWrites, sealed : BOOLEAN]
          /\ board'.queued = 0 /\ board'.saved <= board'.seq
      <3>1. board \in [seq : 0..MaxWrites, ledger : 0..MaxWrites, items : BOOLEAN,
                      saved : 0..MaxWrites, queued : 0..MaxWrites, sealed : BOOLEAN]
            /\ 0 \in 0..MaxWrites /\ FALSE \in BOOLEAN
        BY <1>2, CloseAssumption DEF CloseTypeOK
      <3>2. PICK top \in 0..MaxWrites :
              top = (IF board.ledger > board.saved THEN board.ledger ELSE board.saved)
        BY <3>1
      <3>3. board.saved <= top
        BY <3>1, <3>2
      <3>4. board' = [board EXCEPT !.queued = 0, !.sealed = FALSE, !.seq = top]
        BY <1>1, <3>2 DEF Reloaded
      <3>5. board'.queued = 0 /\ board'.saved = board.saved /\ board'.seq = top
        BY <3>1, <3>4
      <3>6. board' \in [seq : 0..MaxWrites, ledger : 0..MaxWrites, items : BOOLEAN,
                      saved : 0..MaxWrites, queued : 0..MaxWrites, sealed : BOOLEAN]
        BY <3>1, <3>4, Zenon
      <3> QED
        BY <3>3, <3>5, <3>6
    <2>3. pass' \in [Passes -> [at : Closing \cup {"idle", "listed"}, seq : 0..MaxWrites]]
          /\ \A p \in Passes : pass'[p].at = "idle"
      BY <1>1, CloseAssumption DEF Idle
    <2>4. faults' \in 0..MaxFaults /\ pending' \in BOOLEAN
      BY <1>1, <1>2, FaultIsCounted DEF OutcomeCrash, Crash
    <2>5. CloseTypeOK'
      BY <1>1, <1>2, <2>1, <2>2, <2>3, <2>4 DEF CloseTypeOK
    <2>6. session'.purged => \A o \in Objects : objects'[o] = Missing
      BY <1>1, <2>1 DEF Resigned, Kept
    <2>7. purge'.at = "idle"
      BY <1>1 DEF NoPurge
    <2>8. Resigned'
      BY <1>1, <2>1, <2>2, <2>3, <2>5, <2>6, <2>7 DEF Resigned, Kept
    <2> QED
      BY <1>4, <1>5, <1>6, <1>7, <1>8, <1>10, <2>8 DEF OutcomeInv
  <1> QED
    BY <1>9, <1>10

-----------------------------------------------------------------------------
(* The purge.                                                              *)

(* Nothing but condemned outcomes is purged.                               *)
LEMMA PurgeIsDue ==
  ASSUME OutcomeInv, Purge
  PROVE  Gone /\ Resigned
  <1>1. SUFFICES ASSUME ~Gone PROVE FALSE
    BY DEF OutcomeInv
  <1>2. purge.at = "idle" /\ ~PurgeDue
    BY <1>1 DEF OutcomeInv, Gone, Condemned, PurgeDue, DeletionElapsed, DeletionPending,
                RetentionElapsed, HasPurgeableOutcomes, Archived
  <1> QED
    BY <1>2 DEF Purge, StartPurge, PurgeReady, DeleteArchiveObject, DeleteCanvases,
                PurgeForBoardSession, DeleteExportsForEvent, MarkEventOutcomesPurged, PurgeStored,
                DeleteBoardMutationLedger, PurgeFails, RecordEventOutcomePurgeFailed

LEMMA PurgeKeepsTheRest ==
  ASSUME OutcomeInv, Purge
  PROVE  /\ UNCHANGED <<now, stored, storedEvent, pass>>
         /\ Exports' /\ Pages' /\ purge' \in [at : {"idle", "archives", "canvases", "publication",
                "exports", "marking", "storing", "ledger", "failed"}, all : BOOLEAN, covers : BOOLEAN]
  <1> DEFINE Places == {"idle", "archives", "canvases", "publication",
                "exports", "marking", "storing", "ledger", "failed"}
  <1> DEFINE PurgeRecord == [at : Places, all : BOOLEAN, covers : BOOLEAN]
  <1>1. UNCHANGED <<now, stored, storedEvent, pass>>
    BY DEF Purge, StartPurge, DeleteArchiveObject, DeleteCanvases, closeVars, ChangeEvent,
           PurgeForBoardSession, DeleteExportsForEvent, MarkEventOutcomesPurged, PurgeStored,
           DeleteBoardMutationLedger, PurgeFails, RecordEventOutcomePurgeFailed
  <1>2. Exports'
    <2>1. CASE DeleteExportsForEvent
      <3>1. CASE purge.all \/ purge.covers
        BY <2>1, <3>1, Deleted DEF DeleteExportsForEvent, OutcomeInv
      <3>2. CASE ~(purge.all \/ purge.covers)
        BY <2>1, <3>2, ExportsUnmoved DEF DeleteExportsForEvent, OutcomeInv
      <3> QED
        BY <3>1, <3>2
    <2>2. CASE ~DeleteExportsForEvent
      <3>1. UNCHANGED <<job, pictures, runner>>
        BY <2>2 DEF Purge, StartPurge, DeleteArchiveObject, DeleteCanvases,
           PurgeForBoardSession, MarkEventOutcomesPurged, PurgeStored,
           DeleteBoardMutationLedger, PurgeFails, RecordEventOutcomePurgeFailed
      <3> QED
        BY <3>1, ExportsUnmoved DEF OutcomeInv
    <2> QED
      BY <2>1, <2>2
  <1>3. Pages'
    <2>1. publisher' = publisher
      BY DEF Purge, StartPurge, DeleteArchiveObject, DeleteCanvases, DeleteExportsForEvent,
           PurgeForBoardSession, MarkEventOutcomesPurged, PurgeStored,
           DeleteBoardMutationLedger, PurgeFails, RecordEventOutcomePurgeFailed
    <2>2. publication' = publication \/ publication' = [status |-> "none", generation |-> 0]
      BY DEF Purge, StartPurge, DeleteArchiveObject, DeleteCanvases, DeleteExportsForEvent,
           PurgeForBoardSession, MarkEventOutcomesPurged, PurgeStored,
           DeleteBoardMutationLedger, PurgeFails, RecordEventOutcomePurgeFailed
    <2> QED
      BY <2>1, <2>2 DEF OutcomeInv, Pages
  <1>4. purge \in PurgeRecord
    BY DEF OutcomeInv, OutcomeTypeOK
  <1>5. purge' \in PurgeRecord
    <2>1. CASE StartPurge
      <3>1. DeletionElapsed \in BOOLEAN /\ HasPurgeableOutcomes \in BOOLEAN
        BY DEF DeletionElapsed, HasPurgeableOutcomes
      <3> QED
        BY <2>1, <3>1 DEF StartPurge
    <2>2. CASE DeleteBoardMutationLedger \/ RecordEventOutcomePurgeFailed
      <3>1. NoPurge \in PurgeRecord
        BY Zenon DEF NoPurge
      <3> QED
        BY <2>2, <3>1 DEF DeleteBoardMutationLedger, RecordEventOutcomePurgeFailed
    <2>3. CASE ~(StartPurge \/ DeleteBoardMutationLedger \/ RecordEventOutcomePurgeFailed)
      <3>1. UNCHANGED purge \/ \E step \in Places : PurgeGoes(step)
        BY <2>3 DEF Purge, DeleteArchiveObject, DeleteCanvases, DeleteExportsForEvent,
           PurgeForBoardSession, MarkEventOutcomesPurged, PurgeStored, PurgeFails
      <3> QED
        BY <1>4, <3>1 DEF PurgeGoes
    <2> QED
      BY <2>1, <2>2, <2>3
  <1> QED
    BY <1>1, <1>2, <1>3, <1>5

(* A step of the purge that marks nothing.                                 *)
LEMMA PurgeGoesOn ==
  ASSUME OutcomeInv, Purge, UNCHANGED <<session, event>>, Resigned'
  PROVE  OutcomeInv'
  <1>1. Gone /\ UNCHANGED <<now, stored, storedEvent>>
    BY PurgeIsDue, PurgeKeepsTheRest
  <1>2. Gone' /\ Agreed' /\ Asked(session, event)' /\ Asked(stored, storedEvent)'
        /\ event' \in EventRecord /\ storedEvent' \in EventRecord
    BY <1>1, Unmoved
  <1>3. Exports' /\ Pages' /\ OutcomeTypeOK'
    BY <1>2, PurgeKeepsTheRest DEF OutcomeTypeOK
  <1> QED
    BY <1>2, <1>3 DEF OutcomeInv

LEMMA PurgeKeeps ==
  ASSUME OutcomeInv, Purge
  PROVE  OutcomeInv'
  <1>1. Gone /\ Resigned /\ CloseTypeOK /\ event \in EventRecord /\ Agreed
    BY PurgeIsDue, CloseTypesHold DEF OutcomeInv, OutcomeTypeOK
  <1>2. /\ UNCHANGED <<now, stored, storedEvent, pass>>
        /\ Exports' /\ Pages' /\ purge' \in [at : {"idle", "archives", "canvases", "publication",
                "exports", "marking", "storing", "ledger", "failed"}, all : BOOLEAN, covers : BOOLEAN]
    BY PurgeKeepsTheRest
  <1>3. purge \in [at : {"idle", "archives", "canvases", "publication",
                "exports", "marking", "storing", "ledger", "failed"}, all : BOOLEAN, covers : BOOLEAN]
    BY DEF OutcomeInv, OutcomeTypeOK
  <1>4. CASE StartPurge
    <2>1. HasPurgeableOutcomes /\ ~session.purged
      BY <1>1, <1>4 DEF StartPurge, PurgeReady, PurgeDue, DeletionElapsed, DeletionPending,
                  RetentionElapsed, HasPurgeableOutcomes, Archived, OutcomeInv, Asked, CloseTypeOK
    <2>2. purge'.at = "archives" /\ purge'.covers
      BY <1>4, <2>1 DEF StartPurge
    <2>3. UNCHANGED <<closeVars, event>>
      BY <1>4 DEF StartPurge
    <2>4. Resigned'
      BY <1>1, <2>1, <2>2, <2>3 DEF Resigned, closeVars, CloseTypeOK, Kept
    <2> QED
      BY <2>3, <2>4, PurgeGoesOn DEF closeVars
  <1>5. CASE DeleteArchiveObject
    <2>1. UNCHANGED <<session, event, pending, board, faults>>
      BY <1>5 DEF DeleteArchiveObject
    <2>2. objects' \in [Objects -> 0..MaxWrites \cup {Missing}]
          /\ \A o \in Objects : objects[o] = Missing => objects'[o] = Missing
      BY <1>1, <1>5 DEF DeleteArchiveObject, CloseTypeOK
    <2>3. purge'.at \in {"canvases", "archives"} /\ purge'.covers /\ ~session.purged
          /\ (purge'.at = "canvases" => \A o \in Objects : objects'[o] = Missing)
      BY <1>1, <1>3, <1>5 DEF DeleteArchiveObject, PurgeGoes, Resigned
    <2>4. CloseTypeOK'
      BY <1>1, <1>2, <2>1, <2>2 DEF CloseTypeOK
    <2>5. Resigned'
      BY <1>1, <1>2, <2>1, <2>2, <2>3, <2>4 DEF Resigned, Kept
    <2> QED
      BY <2>1, <2>5, PurgeGoesOn
  <1>6. CASE DeleteCanvases \/ PurgeForBoardSession \/ DeleteExportsForEvent
    <2>1. UNCHANGED <<closeVars, event>>
      BY <1>6 DEF DeleteCanvases, PurgeForBoardSession, DeleteExportsForEvent
    <2>2. /\ purge.at \in {"canvases", "publication", "exports"}
          /\ purge'.at \in {"publication", "exports", "marking"} /\ purge'.covers = purge.covers
      BY <1>3, <1>6 DEF DeleteCanvases, PurgeForBoardSession, DeleteExportsForEvent, PurgeGoes
    <2>3. Resigned'
      BY <1>1, <2>1, <2>2 DEF Resigned, closeVars, CloseTypeOK, Kept
    <2> QED
      BY <2>1, <2>3, PurgeGoesOn DEF closeVars
  <1>7. CASE MarkEventOutcomesPurged
    <2>1. /\ purge.at = "marking" /\ purge.covers /\ ~session.purged /\ HasPurgeableOutcomes
          /\ \A o \in Objects : objects[o] = Missing
      BY <1>1, <1>7 DEF MarkEventOutcomesPurged, Resigned, HasPurgeableOutcomes, Archived,
                        CloseTypeOK, Kept
    <2>2. session' = [session EXCEPT !.purged = TRUE, !.key = FALSE]
      BY <1>7, <2>1 DEF MarkEventOutcomesPurged
    <2>3. UNCHANGED <<board, objects, faults>> /\ pending' = TRUE
          /\ purge' = [purge EXCEPT !.at = "storing"]
      BY <1>7, <2>1 DEF MarkEventOutcomesPurged, PurgeGoes
    <2>4. event' \in EventRecord /\ event'.deletion.at # "pending"
      BY <1>1, <1>7, <2>1 DEF MarkEventOutcomesPurged, DeletionPending, EventRecord
    <2>5. session' \in SessionRecord /\ session'.purged /\ ~session'.key /\ session'.status = "closed"
      BY <1>1, <2>2 DEF CloseTypeOK, SessionRecord, Resigned
    <2>6. CloseTypeOK'
      BY <1>1, <1>2, <2>3, <2>5 DEF CloseTypeOK
    <2>7. purge'.at = "storing" /\ purge'.covers
      BY <1>3, <2>1, <2>3
    <2>8. Resigned'
      BY <1>1, <1>2, <2>1, <2>3, <2>5, <2>6, <2>7 DEF Resigned, Kept
    <2>9. Gone' /\ Agreed' /\ Asked(session, event)' /\ Asked(stored, storedEvent)'
      BY <1>1, <1>2, <2>4, <2>5 DEF Gone, Agreed, Condemned, Asked, OutcomeInv
    <2>10. OutcomeTypeOK'
      BY <1>2, <2>4 DEF OutcomeInv, OutcomeTypeOK
    <2> QED
      BY <1>2, <2>8, <2>9, <2>10 DEF OutcomeInv
  <1>8. CASE PurgeStored \/ PurgeFails
    <2>1. UNCHANGED <<session, stored, pending, board, objects, event>>
      BY <1>8 DEF PurgeStored, PurgeFails, closeVars
    <2>2. purge'.at \in {"ledger", "failed"} /\ purge.at # "idle" /\ purge'.covers = purge.covers
      BY <1>3, <1>8 DEF PurgeStored, PurgeFails, PurgeGoes
    <2>3. faults' \in 0..MaxFaults
      BY <1>1, <1>8, FaultIsCounted DEF PurgeStored, PurgeFails, closeVars, CloseTypeOK
    <2>4. CloseTypeOK'
      BY <1>1, <1>2, <2>1, <2>3 DEF CloseTypeOK
    <2>5. Resigned'
      BY <1>1, <1>2, <2>1, <2>2, <2>4 DEF Resigned, Kept
    <2> QED
      BY <2>1, <2>5, PurgeGoesOn
  <1>9. CASE DeleteBoardMutationLedger
    <2>1. UNCHANGED <<session, pending, objects, faults, event>> /\ purge'.at = "idle"
      BY <1>9 DEF DeleteBoardMutationLedger, NoPurge
    <2>2. board' \in {board, [board EXCEPT !.ledger = 0]}
      BY <1>9 DEF DeleteBoardMutationLedger
    <2>3. board' \in [seq : 0..MaxWrites, ledger : 0..MaxWrites, items : BOOLEAN,
                      saved : 0..MaxWrites, queued : 0..MaxWrites, sealed : BOOLEAN]
          /\ board'.queued = board.queued /\ board'.saved = board.saved /\ board'.seq = board.seq
      BY <1>1, <2>2, CloseAssumption DEF CloseTypeOK
    <2>4. CloseTypeOK'
      BY <1>1, <1>2, <2>1, <2>3 DEF CloseTypeOK
    <2>5. Resigned'
      BY <1>1, <1>2, <2>1, <2>3, <2>4 DEF Resigned, Kept
    <2> QED
      BY <2>1, <2>5, PurgeGoesOn
  <1>10. CASE RecordEventOutcomePurgeFailed
    <2>1. /\ UNCHANGED <<session, board, objects, faults>> /\ pending' = TRUE /\ purge'.at = "idle"
          /\ event' = [event EXCEPT !.failedAt = now]
      BY <1>10 DEF RecordEventOutcomePurgeFailed, ChangeEvent, NoPurge
    <2>2. event' \in EventRecord /\ event'.deletion = event.deletion
      BY <1>1, <2>1, CloseAssumption DEF EventRecord, CloseTypeOK
    <2>3. CloseTypeOK'
      BY <1>1, <1>2, <2>1 DEF CloseTypeOK
    <2>4. Resigned'
      BY <1>1, <1>2, <2>1, <2>3 DEF Resigned, Kept
    <2>5. Gone' /\ Agreed' /\ Asked(session, event)' /\ Asked(stored, storedEvent)'
      BY <1>1, <1>2, <2>1, <2>2 DEF Gone, Agreed, Condemned, Asked, OutcomeInv
    <2>6. OutcomeTypeOK'
      BY <1>2, <2>2 DEF OutcomeInv, OutcomeTypeOK
    <2> QED
      BY <1>2, <2>4, <2>5, <2>6 DEF OutcomeInv
  <1> QED
    BY <1>4, <1>5, <1>6, <1>7, <1>8, <1>9, <1>10 DEF Purge

-----------------------------------------------------------------------------
(* The theorems.                                                           *)
LEMMA OutcomeInitInv == OutcomeInit => OutcomeInv
  <1> SUFFICES ASSUME OutcomeInit PROVE OutcomeInv
    OBVIOUS
  <1>1. CloseInv
    BY InitInv DEF OutcomeInit
  <1>2. OutcomeTypeOK
    BY DEF OutcomeInit, OutcomeTypeOK, EventRecord, NoDeletion, NoPurge
  <1>3. Exports
    BY DEF OutcomeInit, Exports, NoJob, Resting, JobStatus, RunnerJob
  <1>4. Pages /\ Canvases /\ purge.at = "idle"
    BY DEF OutcomeInit, Pages, Canvases, NoPublisher, NoPurge
  <1>5. Asked(session, event) /\ Asked(stored, storedEvent) /\ Agreed
    BY DEF OutcomeInit, Init, Asked, Agreed, Gone, NoDeletion
  <1>6. ~Gone
    BY DEF OutcomeInit, Init, Gone, Condemned, NoDeletion
  <1> QED
    BY <1>1, <1>2, <1>3, <1>4, <1>5, <1>6 DEF OutcomeInv

LEMMA OutcomeNextKeeps ==
  ASSUME DeleteWindow > 0, ~Quiet, OutcomeInv, [Next]_allVars
  PROVE  OutcomeInv'
  <1>1. CASE UNCHANGED allVars
    <2>1. pending' \in BOOLEAN /\ faults' \in 0..MaxFaults
      BY <1>1, CloseTypesHold DEF allVars, closeVars, CloseTypeOK
    <2>2. UNCHANGED <<publication, publisher, canvases, job, pictures, runner>>
      BY <1>1 DEF allVars, outcomeVars
    <2>3. Exports' /\ Pages' /\ (Canvases => Canvases')
      BY <2>2, ExportsUnmoved, PagesUnmoved DEF OutcomeInv, Canvases
    <2> QED
      BY <1>1, <2>1, <2>3, OutcomeSteps DEF allVars, closeVars, outcomeVars
  <1>2. CASE Next
    BY <1>2, CloseStepKeeps, OutcomeTickKeeps, OutcomePersistKeeps, OutcomeCrashKeeps, OwnerKeeps,
       PublicationKeeps, ExportRequestsKeep, PurgeKeeps, RunnerKeeps DEF Next
  <1> QED
    BY <1>1, <1>2

LEMMA OutcomeInvIsEnough ==
  ASSUME OutcomeInv
  PROVE  RecoverableIsWhole /\ OfferedExists /\ PurgedArchiveIsGone
  <1>1. ASSUME HasPurgeableOutcomes, ~PurgeDue  PROVE ~Gone
    BY <1>1 DEF HasPurgeableOutcomes, PurgeDue, DeletionElapsed, DeletionPending,
                RetentionElapsed, Archived, Gone, Condemned
  <1>2. RecoverableIsWhole
    <2>1. ASSUME HasPurgeableOutcomes, ~PurgeDue
          PROVE  Whole(session.finalSeq) /\ board.ledger = session.finalSeq
      BY <1>1, <2>1, InvIsEnough DEF OutcomeInv, ClosedIsWhole, HasPurgeableOutcomes, Archived
    <2> QED
      BY <2>1 DEF RecoverableIsWhole
  <1>3. OfferedExists
    BY <1>1 DEF OfferedExists, OutcomeInv, Exports, Canvases, OutcomesInvalidated,
                HasPurgeableOutcomes
  <1>4. PurgedArchiveIsGone
    <2>1. ASSUME stored.purged  PROVE Resigned /\ session.purged
      BY <2>1 DEF OutcomeInv, Agreed, Condemned, Resigned
    <2> QED
      BY <2>1 DEF PurgedArchiveIsGone, Whole, Resigned, Kept
  <1> QED
    BY <1>2, <1>3, <1>4

LEMMA OutcomeInvHolds ==
  ASSUME DeleteWindow > 0, ~Quiet
  PROVE  Spec => []OutcomeInv
  <1>1. OutcomeInv /\ [Next]_allVars => OutcomeInv'
    BY OutcomeNextKeeps
  <1> QED
    BY <1>1, OutcomeInitInv, PTL DEF Spec

(* What nothing condemns yet can be given back whole: a closed session has *)
(* everything its ledger holds in its archive, also after a deletion was   *)
(* asked for and taken back (close.mjs:236, store.mjs:2188).               *)
THEOREM RecoverableWhole ==
  ASSUME DeleteWindow > 0, ~Quiet
  PROVE  Spec => []RecoverableIsWhole
  BY OutcomeInvHolds, OutcomeInvIsEnough, PTL

(* What the pages offer exists, whichever runners overlap and whatever is  *)
(* deleted under them (publication/store.mjs:222, export/store.mjs:341).   *)
THEOREM OfferedIsThere ==
  ASSUME DeleteWindow > 0, ~Quiet
  PROVE  Spec => []OfferedExists
  BY OutcomeInvHolds, OutcomeInvIsEnough, PTL

(* Once the documents say purged, nothing of the archive is left, and no   *)
(* pass puts it back (outcomes.mjs:22).                                    *)
THEOREM PurgedForGood ==
  ASSUME DeleteWindow > 0, ~Quiet
  PROVE  Spec => []PurgedArchiveIsGone
  BY OutcomeInvHolds, OutcomeInvIsEnough, PTL

=============================================================================
