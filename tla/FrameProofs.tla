---------------------------- MODULE FrameProofs ----------------------------
(***************************************************************************)
(* Proofs about the parts a frame passes through: FrameArchive, DataUnits, *)
(* FrameAggregator and UserFrames, for every value of their constants.     *)
(* Each part has a section: the inductive invariant, what the steps keep   *)
(* of it, and the theorems.                                                *)
(***************************************************************************)
EXTENDS Frames, TLAPS, FiniteSetTheorems, SequenceTheorems, WellFoundedInduction

\* The types without the two lower bounds that rest on the accounting.
Types ==
    /\ frame \in [Holder -> Obj \cup {NoFrame}]
    /\ pc \in [Holder -> PC]
    /\ \A h \in Holder : pc[h] \notin {"idle", "allocate"} => frame[h] # NoFrame
    /\ \A h \in Holder : pc[h] = "allocate" => frame[h] = NoFrame
    /\ ref_count \in [Obj -> Int] /\ kept \in [Obj -> BOOLEAN]
    /\ owner \in [Obj -> BOOLEAN] /\ fixed \in [Obj -> BOOLEAN]
    /\ is_free \in [Slot -> BOOLEAN]
    /\ size \in Int /\ keep_allocating \in BOOLEAN
    /\ news \subseteq Spare
    /\ count \in Int

Exclusive == {"track", "unpublish", "reset", "free", "delete"}

\* A holder that publishes a frame or takes it down has it for itself.
OneOwner ==
    \A h, g \in Holder : pc[h] \in Exclusive /\ frame[g] = frame[h] => g = h

\* mutex_ excludes.
OneInMutex ==
    \A h, g \in Holder :
        pc[h] \in {"allocate", "track"} /\ pc[g] \in {"allocate", "track"} => g = h

\* One keep() of a frame counts down.
OneKeeper ==
    \A h \in Holder : pc[h] = "keep_frame" =>
        /\ kept[frame[h]]
        /\ \A g \in Holder : pc[g] = "keep_frame" /\ frame[g] = frame[h] => g = h

\* Memory is in use exactly while a holder has it.
UseMatches == \A o \in Obj : InUse(o) <=> \E h \in Holder : frame[h] = o

\* isFixed() tells the slots from the other objects.
FixedMatches ==
    /\ \A o \in Spare : ~fixed[o]
    /\ \A h \in Holder :
          /\ frame[h] \in Slot => fixed[frame[h]]
          /\ pc[h] \in {"reset", "free"} => frame[h] \in Slot
          /\ pc[h] = "delete" => frame[h] \in Spare

Ownership == OneOwner /\ OneInMutex /\ OneKeeper /\ UseMatches /\ FixedMatches

References ==
    \A o \in Obj : Refs(o) # {} => owner[o] /\ ref_count[o] = Cardinality(Refs(o))

UsedSlots == {s \in Slot : ~is_free[s]}

Accounting ==
    /\ count = Cardinality(Counted)
    /\ MaxFrames > 0 => count <= MaxFrames
    /\ \A h \in Holder :
          MaxFrames > 0 /\ pc[h] \in {"allocate", "track"} => count < MaxFrames
    /\ size = Cardinality(UsedSlots)

FrameInv == Types /\ Ownership /\ References /\ Accounting

----------------------------------------------------------------------------
\* The sets that are counted are finite.
LEMMA Finite ==
    /\ \A o : IsFiniteSet(Refs(o)) /\ Cardinality(Refs(o)) \in Nat
    /\ IsFiniteSet(Counted) /\ Cardinality(Counted) \in Nat
    /\ IsFiniteSet(UsedSlots) /\ Cardinality(UsedSlots) \in Nat
  <1>1. IsFiniteSet(Holder) /\ IsFiniteSet(Slot) /\ IsFiniteSet(Obj)
    BY ArchiveAssumption, FS_Union DEF Obj
  <1>2. \A o : IsFiniteSet(Refs(o))
    BY <1>1, FS_Subset DEF Refs
  <1>3. IsFiniteSet(Counted) /\ IsFiniteSet(UsedSlots)
    BY <1>1, FS_Subset DEF Counted, UsedSlots
  <1>. QED
    BY <1>2, <1>3, FS_CardinalityType

\* What the steps do to the types.
LEMMA TypesStep ==
    ASSUME Types, NEW h \in Holder, HolderStep(h)
    PROVE  Types'
  <1> USE DEF Types, PC, Goto
  <1>a. Slot \cap Spare = {} /\ NoFrame \notin Obj /\ Slot \subseteq Obj /\ Spare \subseteq Obj
    BY ArchiveAssumption DEF Obj
  <1>1. CASE Publish(h)
    BY <1>1 DEF Publish, Empty, heapVars
  <1>2. CASE Allocate(h)
    <2>1. ASSUME NEW s \in FreeSlots, is_free' = [is_free EXCEPT ![s] = FALSE],
                 fixed' = [fixed EXCEPT ![s] = TRUE], frame' = [frame EXCEPT ![h] = s],
                 size' = size + 1, news' = news
          PROVE  Types'
      BY <1>2, <1>a, <2>1 DEF Allocate, FreeSlots
    <2>2. ASSUME NEW o \in Spare \ news, news' = news \cup {o},
                 frame' = [frame EXCEPT ![h] = o], UNCHANGED <<fixed, is_free, size>>
          PROVE  Types'
      BY <1>2, <1>a, <2>2 DEF Allocate
    <2>. QED
      BY <1>2, <2>1, <2>2 DEF Allocate
  <1>3. CASE Track(h)
    BY <1>3 DEF Track, heapVars
  <1>4. ASSUME NEW g \in Holder, Clone(h, g) PROVE Types'
    BY <1>4 DEF Clone, Holds, Empty, heapVars
  <1>5. CASE Keep(h)
    BY <1>5 DEF Keep, Holds, heapVars
  <1>6. CASE KeepFrame(h)
    BY <1>6 DEF KeepFrame, heapVars
  <1>7. CASE Release(h)
    BY <1>7 DEF Release, Holds, heapVars
  <1>8. CASE UnpublishFrame(h)
    BY <1>8 DEF UnpublishFrame, heapVars
  <1>9. CASE ResetSlot(h)
    BY <1>9 DEF ResetSlot, heapVars
  <1>10. CASE FreeSlot(h)
    <2>1. size' \in Int
      BY <1>10 DEF FreeSlot
    <2>2. is_free' \in [Slot -> BOOLEAN]
      BY <1>10, Zenon DEF FreeSlot
    <2>. QED
      BY <1>10, <2>1, <2>2 DEF FreeSlot
  <1>11. CASE Delete(h)
    BY <1>11 DEF Delete
  <1>. QED
    BY <1>1, <1>2, <1>3, <1>4, <1>5, <1>6, <1>7, <1>8, <1>9, <1>10, <1>11 DEF HolderStep

\* Whoever drops the count to zero is the only holder of the frame.
LEMMA LastRef ==
    ASSUME Types, OneOwner, References,
           NEW h \in Holder, Holds(h), ref_count[frame[h]] = 1
    PROVE  \A g \in Holder : frame[g] = frame[h] => g = h
  <1> DEFINE o == frame[h]
  <1>1. o \in Obj /\ h \in Refs(o)
    BY DEF Types, Holds, Refs
  <1>2. Cardinality(Refs(o)) = 1
    BY <1>1 DEF References
  <1>3. PICK x : Refs(o) = {x}
    BY <1>2, Finite, FS_Singleton
  <1>4. ASSUME NEW g \in Holder, frame[g] = o PROVE g = h
    <2>1. CASE pc[g] \in Exclusive
      BY <1>4, <2>1 DEF OneOwner
    <2>2. CASE pc[g] \notin Exclusive
      <3>1. pc[g] \in {"idle", "keep_frame"}
        BY <1>1, <1>4, <2>2, ArchiveAssumption DEF Types, PC, Exclusive
      <3>2. g \in Refs(o)
        BY <1>4, <3>1 DEF Refs
      <3>. QED
        BY <1>1, <1>3, <3>2
    <2>. QED
      BY <2>1, <2>2
  <1>. QED
    BY <1>4

\* Otherwise another holder has it too.
LEMMA NotLastRef ==
    ASSUME Types, References,
           NEW h \in Holder, Holds(h), ref_count[frame[h]] # 1
    PROVE  \E g \in Holder : g # h /\ g \in Refs(frame[h])
  <1> SUFFICES ASSUME \A g \in Holder : g \in Refs(frame[h]) => g = h
               PROVE  FALSE
    OBVIOUS
  <1>1. frame[h] \in Obj /\ h \in Refs(frame[h])
    BY DEF Types, Holds, Refs
  <1>2. Refs(frame[h]) = {h}
    BY <1>1 DEF Refs
  <1>3. Cardinality(Refs(frame[h])) = 1
    BY <1>2, FS_Singleton
  <1>. QED
    BY <1>1, <1>3 DEF References

\* What the steps do to the ownership of the frames.
LEMMA OwnershipStep ==
    ASSUME Types, Ownership, References, NEW h \in Holder, HolderStep(h)
    PROVE  Ownership'
  <1>a. Slot \cap Spare = {} /\ NoFrame \notin Obj /\ Obj = Slot \cup Spare
    BY ArchiveAssumption DEF Obj
  <1> USE DEF Types, Ownership, OneOwner, OneInMutex, OneKeeper, FixedMatches, UseMatches,
              InUse, Exclusive, PC, Goto
  <1>1. CASE Publish(h)
    BY <1>1, <1>a DEF Publish, Empty, heapVars, MutexFree
  <1>2. CASE Allocate(h)
    <2>1. ASSUME NEW s \in FreeSlots, is_free' = [is_free EXCEPT ![s] = FALSE],
                 fixed' = [fixed EXCEPT ![s] = TRUE], frame' = [frame EXCEPT ![h] = s],
                 news' = news
          PROVE  Ownership'
      BY <1>2, <1>a, <2>1 DEF Allocate, FreeSlots
    <2>2. ASSUME NEW o \in Spare \ news, news' = news \cup {o},
                 frame' = [frame EXCEPT ![h] = o], UNCHANGED <<fixed, is_free>>
          PROVE  Ownership'
      <3>1. \A g \in Holder : frame[g] # o
        BY <1>a, <2>2
      <3>2. UseMatches'
        BY <1>2, <1>a, <2>2, <3>1 DEF Allocate
      <3>. QED
        BY <1>2, <1>a, <2>2, <3>1, <3>2 DEF Allocate
    <2>. QED
      BY <1>2, <2>1, <2>2 DEF Allocate
  <1>3. CASE Track(h)
    BY <1>3, <1>a DEF Track, heapVars
  <1>4. ASSUME NEW g \in Holder, Clone(h, g) PROVE Ownership'
    BY <1>4, <1>a DEF Clone, Holds, Empty, heapVars
  <1>5. CASE Keep(h)
    BY <1>5, <1>a DEF Keep, Holds, heapVars
  <1>6. CASE KeepFrame(h)
    BY <1>6, <1>a DEF KeepFrame, heapVars
  <1>7. CASE Release(h)
    <2>1. CASE ref_count[frame[h]] = 1
      <3>1. \A g \in Holder : frame[g] = frame[h] => g = h
        BY <1>7, <2>1, LastRef DEF Release
      <3>. QED
        BY <1>7, <1>a, <2>1, <3>1 DEF Release, Holds, heapVars
    <2>2. CASE ref_count[frame[h]] # 1
      <3>1. PICK g \in Holder : g # h /\ g \in Refs(frame[h])
        BY <1>7, <2>2, NotLastRef DEF Release
      <3>2. frame[g] = frame[h] /\ frame' = [frame EXCEPT ![h] = NoFrame] /\ pc' = pc
        BY <1>7, <2>2, <3>1 DEF Release, Refs
      <3>3. UseMatches'
        BY <1>7, <1>a, <3>1, <3>2 DEF Release, Holds, heapVars
      <3>. QED
        BY <1>7, <1>a, <3>2, <3>3 DEF Release, Holds, heapVars
    <2>. QED
      BY <2>1, <2>2
  <1>8. CASE UnpublishFrame(h)
    BY <1>8, <1>a DEF UnpublishFrame, heapVars
  <1>9. CASE ResetSlot(h)
    BY <1>9, <1>a DEF ResetSlot, heapVars
  <1>10. CASE FreeSlot(h)
    BY <1>10, <1>a DEF FreeSlot
  <1>11. CASE Delete(h)
    BY <1>11, <1>a DEF Delete
  <1>. QED
    BY <1>1, <1>2, <1>3, <1>4, <1>5, <1>6, <1>7, <1>8, <1>9, <1>10, <1>11 DEF HolderStep

\* ref_count_ follows the holders.
LEMMA ReferencesStep ==
    ASSUME Types, Ownership, References, NEW h \in Holder, HolderStep(h)
    PROVE  References'
  <1> SUFFICES ASSUME NEW o \in Obj, Refs(o)' # {}
               PROVE  owner'[o] /\ ref_count'[o] = Cardinality(Refs(o)')
    BY DEF References
  <1> DEFINE Kept == Refs(o)' = Refs(o) /\ owner'[o] = owner[o] /\ ref_count'[o] = ref_count[o]
  <1>a. ASSUME Kept PROVE owner'[o] /\ ref_count'[o] = Cardinality(Refs(o)')
    BY <1>a DEF References
  <1>b. Slot \cap Spare = {} /\ NoFrame \notin Obj /\ Obj = Slot \cup Spare
    BY ArchiveAssumption DEF Obj
  <1>c. \A x : IsFiniteSet(Refs(x)) /\ Cardinality(Refs(x)) \in Nat
    BY Finite
  <1> USE DEF Types, Ownership, OneOwner, Exclusive, PC, Goto, Refs
  <1>1. CASE Publish(h)
    BY <1>1, <1>a, <1>b DEF Publish, Empty, heapVars
  <1>2. CASE Allocate(h)
    <2>1. \A g \in Holder : g # h => frame'[g] = frame[g] /\ pc'[g] = pc[g]
      BY <1>2 DEF Allocate
    <2>2. pc[h] = "allocate" /\ pc'[h] = "track" /\ UNCHANGED <<owner, ref_count>>
      BY <1>2 DEF Allocate
    <2>. QED
      BY <1>a, <2>1, <2>2
  <1>3. CASE Track(h)
    <2>1. CASE o = frame[h]
      <3>1. Refs(o)' = {h}
        BY <1>3, <2>1 DEF Track
      <3>2. owner'[o] /\ ref_count'[o] = 1
        BY <1>3, <2>1 DEF Track
      <3>. QED
        BY <3>1, <3>2, FS_Singleton
    <2>2. CASE o # frame[h]
      BY <1>3, <1>a, <2>2 DEF Track
    <2>. QED
      BY <2>1, <2>2
  <1>4. ASSUME NEW g \in Holder, Clone(h, g)
        PROVE  owner'[o] /\ ref_count'[o] = Cardinality(Refs(o)')
    <2>1. CASE o = frame[h]
      <3>1. Refs(o)' = Refs(o) \cup {g} /\ g \notin Refs(o) /\ h \in Refs(o)
        BY <1>4, <1>b, <2>1 DEF Clone, Holds, Empty
      <3> HIDE DEF Refs
      <3>2. Cardinality(Refs(o) \cup {g}) = Cardinality(Refs(o)) + 1
        BY <1>c, <3>1, FS_AddElement
      <3>3. owner'[o] = owner[o] /\ ref_count'[o] = ref_count[o] + 1
        BY <1>4, <2>1 DEF Clone
      <3>. QED
        BY <3>1, <3>2, <3>3 DEF References
    <2>2. CASE o # frame[h]
      BY <1>4, <1>a, <1>b, <2>2 DEF Clone, Holds, Empty
    <2>. QED
      BY <2>1, <2>2
  <1>5. CASE Keep(h)
    BY <1>5, <1>a DEF Keep, Holds
  <1>6. CASE KeepFrame(h)
    BY <1>6, <1>a DEF KeepFrame
  <1>7. CASE Release(h)
    <2>1. CASE o = frame[h]
      <3>1. Refs(o)' = Refs(o) \ {h} /\ h \in Refs(o)
        BY <1>7, <1>b, <2>1 DEF Release, Holds
      <3> HIDE DEF Refs
      <3>2. Cardinality(Refs(o)') = Cardinality(Refs(o)) - 1
        BY <1>c, <3>1, FS_RemoveElement
      <3>3. owner'[o] = owner[o] /\ ref_count'[o] = ref_count[o] - 1
        BY <1>7, <2>1 DEF Release
      <3>. QED
        BY <3>1, <3>2, <3>3 DEF References
    <2>2. CASE o # frame[h]
      BY <1>7, <1>a, <1>b, <2>2 DEF Release, Holds
    <2>. QED
      BY <2>1, <2>2
  <1>8. CASE UnpublishFrame(h)
    BY <1>8, <1>a DEF UnpublishFrame
  <1>9. CASE ResetSlot(h)
    BY <1>9, <1>a DEF ResetSlot
  <1>10. CASE FreeSlot(h)
    BY <1>10, <1>a, <1>b DEF FreeSlot
  <1>11. CASE Delete(h)
    BY <1>11, <1>a, <1>b DEF Delete
  <1>. QED
    BY <1>1, <1>2, <1>3, <1>4, <1>5, <1>6, <1>7, <1>8, <1>9, <1>10, <1>11 DEF HolderStep

\* published_frames_count_ follows the frames that are not kept, size_ the slots.
LEMMA AccountingStep ==
    ASSUME FrameInv, NEW h \in Holder, HolderStep(h)
    PROVE  Accounting'
  <1> DEFINE InLimit(n) ==
        /\ MaxFrames > 0 => n <= MaxFrames
        /\ \A g \in Holder :
              MaxFrames > 0 /\ pc'[g] \in {"allocate", "track"} => n < MaxFrames
  <1>a. Slot \cap Spare = {} /\ NoFrame \notin Obj /\ Obj = Slot \cup Spare /\ MaxFrames \in Nat
    BY ArchiveAssumption DEF Obj
  <1>b. /\ IsFiniteSet(Counted) /\ Cardinality(Counted) \in Nat
        /\ IsFiniteSet(UsedSlots) /\ Cardinality(UsedSlots) \in Nat
    BY Finite
  <1>c. count = Cardinality(Counted) /\ size = Cardinality(UsedSlots)
    BY DEF FrameInv, Accounting
  <1>d. ASSUME UsedSlots' = UsedSlots, size' = size PROVE size' = Cardinality(UsedSlots')
    BY <1>c, <1>d
  <1>e. ASSUME Counted' = Counted, count' = count PROVE count' = Cardinality(Counted')
    BY <1>c, <1>e
  \* The frame x no longer counts.
  <1>f. ASSUME NEW x \in Counted, Counted' = Counted \ {x}, count' = count - 1
        PROVE  count' = Cardinality(Counted')
    BY <1>b, <1>c, <1>f, FS_RemoveElement
  <1> USE DEF FrameInv, Types, PC, Goto
  <1>1. CASE Publish(h)
    <2>1. Counted' = Counted /\ UsedSlots' = UsedSlots /\ count' = count /\ size' = size
      BY <1>1, <1>a DEF Publish, Empty, heapVars, Counted, Counts, UsedSlots
    <2>2. InLimit(count')
      BY <1>1, <1>a DEF Publish, MutexFree, Accounting
    <2>. QED
      BY <1>d, <1>e, <2>1, <2>2 DEF Accounting
  <1>2. CASE Allocate(h)
    <2>1. Counted' = Counted
      <3>1. \A g \in Holder : g # h => frame'[g] = frame[g] /\ pc'[g] = pc[g]
        BY <1>2 DEF Allocate
      <3>2. pc[h] = "allocate" /\ pc'[h] = "track" /\ kept' = kept
        BY <1>2 DEF Allocate
      <3>. QED
        BY <3>1, <3>2 DEF Counted, Counts
    <2>2. InLimit(count') /\ count' = count
      BY <1>2 DEF Allocate, Accounting
    <2>3. size' = Cardinality(UsedSlots')
      <3>1. ASSUME NEW s \in FreeSlots, is_free' = [is_free EXCEPT ![s] = FALSE],
                   size' = size + 1
            PROVE  size' = Cardinality(UsedSlots')
        <4>1. UsedSlots' = UsedSlots \cup {s} /\ s \notin UsedSlots
          BY <3>1 DEF UsedSlots, FreeSlots
        <4>2. Cardinality(UsedSlots \cup {s}) = Cardinality(UsedSlots) + 1
          BY <1>b, <4>1, FS_AddElement
        <4>. QED
          BY <1>c, <3>1, <4>1, <4>2
      <3>2. ASSUME UNCHANGED <<is_free, size>> PROVE size' = Cardinality(UsedSlots')
        BY <1>c, <3>2 DEF UsedSlots
      <3>. QED
        BY <1>2, <3>1, <3>2 DEF Allocate
    <2>. QED
      BY <1>e, <2>1, <2>2, <2>3 DEF Accounting
  <1>3. CASE Track(h)
    <2>1. Counted' = Counted \cup {frame[h]} /\ frame[h] \notin Counted
      BY <1>3, <1>a DEF Track, Counted, Counts, Ownership, OneOwner, Exclusive
    <2>2. Cardinality(Counted \cup {frame[h]}) = Cardinality(Counted) + 1
      BY <1>b, <2>1, FS_AddElement
    <2>3. UsedSlots' = UsedSlots /\ size' = size /\ count' = count + 1
      BY <1>3 DEF Track, heapVars, UsedSlots
    <2>4. InLimit(count')
      BY <1>3, <1>a DEF Track, Accounting, Ownership, OneInMutex
    <2>. QED
      BY <1>c, <1>d, <2>1, <2>2, <2>3, <2>4 DEF Accounting
  <1>4. ASSUME NEW g \in Holder, Clone(h, g) PROVE Accounting'
    <2>1. Counted' = Counted /\ UsedSlots' = UsedSlots /\ count' = count /\ size' = size
      BY <1>4, <1>a DEF Clone, Holds, Empty, heapVars, Counted, Counts, UsedSlots
    <2>2. InLimit(count')
      BY <1>4 DEF Clone, Accounting
    <2>. QED
      BY <1>d, <1>e, <2>1, <2>2 DEF Accounting
  <1>5. CASE Keep(h)
    <2>1. Counted' = Counted
      BY <1>5, <1>a DEF Keep, Holds, Counted, Counts, Ownership, OneOwner, Exclusive
    <2>2. UsedSlots' = UsedSlots /\ count' = count /\ size' = size
      BY <1>5 DEF Keep, heapVars, UsedSlots
    <2>3. InLimit(count')
      BY <1>5 DEF Keep, Accounting
    <2>. QED
      BY <1>d, <1>e, <2>1, <2>2, <2>3 DEF Accounting
  <1>6. CASE KeepFrame(h)
    <2>1. frame[h] \in Counted /\ Counted' = Counted \ {frame[h]}
      BY <1>6, <1>a DEF KeepFrame, Counted, Counts, Ownership, OneKeeper
    <2>2. UsedSlots' = UsedSlots /\ count' = count - 1 /\ size' = size
      BY <1>6 DEF KeepFrame, heapVars, UsedSlots
    <2>3. InLimit(count')
      BY <1>6, <1>a, <2>2 DEF KeepFrame, Accounting
    <2>. QED
      BY <1>d, <1>f, <2>1, <2>2, <2>3 DEF Accounting
  <1>7. CASE Release(h)
    <2>1. Counted' = Counted
      <3>1. CASE ref_count[frame[h]] = 1
        BY <1>7, <1>a, <3>1 DEF Release, Holds, Counted, Counts
      <3>2. CASE ref_count[frame[h]] # 1
        <4>1. PICK g \in Holder : g # h /\ g \in Refs(frame[h])
          BY <1>7, <3>2, NotLastRef DEF Release
        <4>2. /\ frame[g] = frame[h] /\ pc[g] \in {"idle", "keep_frame"}
              /\ frame' = [frame EXCEPT ![h] = NoFrame] /\ pc' = pc /\ kept' = kept
          BY <1>7, <3>2, <4>1 DEF Release, Refs
        <4>. QED
          BY <1>7, <1>a, <4>1, <4>2 DEF Release, Holds, Counted, Counts
      <3>. QED
        BY <3>1, <3>2
    <2>2. UsedSlots' = UsedSlots /\ count' = count /\ size' = size
      BY <1>7 DEF Release, heapVars, UsedSlots
    <2>3. InLimit(count')
      BY <1>7 DEF Release, Accounting
    <2>. QED
      BY <1>d, <1>e, <2>1, <2>2, <2>3 DEF Accounting
  <1>8. CASE UnpublishFrame(h)
    <2>1. UsedSlots' = UsedSlots /\ size' = size
      BY <1>8 DEF UnpublishFrame, heapVars, UsedSlots
    <2>2. CASE kept[frame[h]]
      <3>1. Counted' = Counted /\ count' = count
        BY <1>8, <2>2 DEF UnpublishFrame, Counted, Counts, Ownership, OneOwner, Exclusive
      <3>2. InLimit(count')
        BY <1>8, <3>1 DEF UnpublishFrame, Accounting
      <3>. QED
        BY <1>d, <1>e, <2>1, <3>1, <3>2 DEF Accounting
    <2>3. CASE ~kept[frame[h]]
      <3>1. /\ frame[h] \in Counted /\ Counted' = Counted \ {frame[h]}
            /\ count' = count - 1
        BY <1>8, <2>3 DEF UnpublishFrame, Counted, Counts, Ownership, OneOwner, Exclusive
      <3>2. InLimit(count')
        BY <1>8, <1>a, <3>1 DEF UnpublishFrame, Accounting
      <3>. QED
        BY <1>d, <1>f, <2>1, <3>1, <3>2 DEF Accounting
    <2>. QED
      BY <2>2, <2>3
  <1>9. CASE ResetSlot(h)
    <2>1. Counted' = Counted
      BY <1>9 DEF ResetSlot, Counted, Counts, Ownership, OneOwner, Exclusive
    <2>2. UsedSlots' = UsedSlots /\ count' = count /\ size' = size
      BY <1>9 DEF ResetSlot, heapVars, UsedSlots
    <2>3. InLimit(count')
      BY <1>9 DEF ResetSlot, Accounting
    <2>. QED
      BY <1>d, <1>e, <2>1, <2>2, <2>3 DEF Accounting
  <1>10. CASE FreeSlot(h)
    <2>1. Counted' = Counted /\ count' = count
      BY <1>10, <1>a DEF FreeSlot, Counted, Counts
    <2>2. UsedSlots' = UsedSlots \ {frame[h]} /\ frame[h] \in UsedSlots
      BY <1>10, <1>a DEF FreeSlot, UsedSlots, Ownership, FixedMatches, UseMatches, InUse
    <2>3. size' = Cardinality(UsedSlots')
      BY <1>10, <1>b, <1>c, <2>2, FS_RemoveElement DEF FreeSlot
    <2>4. InLimit(count')
      BY <1>10 DEF FreeSlot, Accounting
    <2>. QED
      BY <1>e, <2>1, <2>3, <2>4 DEF Accounting
  <1>11. CASE Delete(h)
    <2>1. Counted' = Counted
      BY <1>11, <1>a DEF Delete, Counted, Counts, Ownership, OneOwner, Exclusive
    <2>2. UsedSlots' = UsedSlots /\ count' = count /\ size' = size
      BY <1>11 DEF Delete, UsedSlots
    <2>3. InLimit(count')
      BY <1>11 DEF Delete, Accounting
    <2>. QED
      BY <1>d, <1>e, <2>1, <2>2, <2>3 DEF Accounting
  <1>. QED
    BY <1>1, <1>2, <1>3, <1>4, <1>5, <1>6, <1>7, <1>8, <1>9, <1>10, <1>11 DEF HolderStep

----------------------------------------------------------------------------
\* The steps of the callbacks and of flush() touch no frame and no count.
LEMMA OtherSteps ==
    BeginCallback \/ EndCallback \/ FlushStep =>
        UNCHANGED <<frameVars, is_free, size, news, count>>
        /\ (keep_allocating' = keep_allocating \/ keep_allocating' = FALSE)
  BY DEF BeginCallback, EndCallback, FlushStep, FlushStopFrames, FlushStopCallbacks,
         FlushWait, FlushReturn, frameVars, heapVars

\* The frames, their memory and their accounts stay consistent whatever the holders,
\* the callbacks and flush() do (frame_archive.h, frame_data.cc, se_types.hpp).
THEOREM FramesConsistent == Spec => []FrameInv
  <1>1. Init => FrameInv
    <2> SUFFICES ASSUME Init PROVE FrameInv
      OBVIOUS
    <2>a. Slot \cap Spare = {} /\ NoFrame \notin Obj /\ Obj = Slot \cup Spare /\ MaxFrames \in Nat
      BY ArchiveAssumption DEF Obj
    <2>1. Types
      BY DEF Init, Types, PC
    <2>2. Ownership
      BY <2>a DEF Init, Ownership, OneOwner, OneInMutex, OneKeeper, UseMatches,
                  FixedMatches, InUse, Exclusive
    <2>3. Counted = {} /\ UsedSlots = {} /\ \A o \in Obj : Refs(o) = {}
      BY <2>a DEF Init, Counted, UsedSlots, Refs
    <2>4. References /\ Accounting
      BY <2>a, <2>3, FS_EmptySet DEF Init, References, Accounting
    <2>. QED
      BY <2>1, <2>2, <2>4 DEF FrameInv
  <1>2. FrameInv /\ [Next]_vars => FrameInv'
    <2> SUFFICES ASSUME FrameInv, [Next]_vars PROVE FrameInv'
      OBVIOUS
    <2>1. ASSUME NEW h \in Holder, HolderStep(h) PROVE FrameInv'
      BY <2>1, TypesStep, OwnershipStep, ReferencesStep, AccountingStep DEF FrameInv
    <2>2. ASSUME UNCHANGED <<frameVars, is_free, size, news, count>>,
                 keep_allocating' \in BOOLEAN
          PROVE  FrameInv'
      <3>1. /\ Types' /\ Ownership'
            /\ Counted' = Counted /\ UsedSlots' = UsedSlots
            /\ \A o \in Obj : Refs(o)' = Refs(o)
        BY <2>2 DEF FrameInv, Types, Ownership, OneOwner, OneInMutex, OneKeeper, UseMatches,
                    FixedMatches, InUse, frameVars, Counted, Counts, UsedSlots, Refs
      <3>. QED
        BY <2>2, <3>1 DEF FrameInv, References, Accounting, frameVars
    <2>3. CASE BeginCallback \/ EndCallback \/ FlushStep
      BY <2>2, <2>3, OtherSteps DEF FrameInv, Types
    <2>4. CASE UNCHANGED vars
      BY <2>2, <2>4 DEF vars, heapVars, FrameInv, Types
    <2>. QED
      BY <2>1, <2>3, <2>4 DEF Next
  <1>. QED
    BY <1>1, <1>2, PTL DEF Spec

\* A frame somebody refers to is intact (HeldFramesIntact).
THEOREM HeldFrames == Spec => []HeldFramesIntact
  <1>1. FrameInv => HeldFramesIntact
    BY DEF FrameInv, Ownership, UseMatches, References, HeldFramesIntact, Refs
  <1>. QED
    BY <1>1, FramesConsistent, PTL

\* published_frames_count_ is exact and within the limit (PublishedWithinLimit).
THEOREM LimitKept == Spec => []PublishedWithinLimit
  <1>1. FrameInv => PublishedWithinLimit
    BY DEF FrameInv, Accounting, PublishedWithinLimit
  <1>. QED
    BY <1>1, FramesConsistent, PTL

\* Without references nothing is left allocated (NothingLeaks).
THEOREM AllGivenBack == Spec => []NothingLeaks
  <1>1. FrameInv => NothingLeaks
    <2> SUFFICES ASSUME FrameInv, \A h \in Holder : Empty(h)
                 PROVE  count = 0 /\ size = 0 /\ FreeSlots = Slot /\ news = {}
      BY DEF NothingLeaks
    <2>a. Slot \cap Spare = {} /\ NoFrame \notin Obj /\ Obj = Slot \cup Spare
      BY ArchiveAssumption DEF Obj
    <2>1. \A o \in Obj : ~InUse(o)
      BY <2>a DEF FrameInv, Ownership, UseMatches, Empty
    <2>2. FreeSlots = Slot /\ news = {} /\ UsedSlots = {} /\ Counted = {}
      BY <2>1, <2>a DEF FrameInv, Types, InUse, FreeSlots, UsedSlots, Counted, Empty
    <2>. QED
      BY <2>2, FS_EmptySet DEF FrameInv, Accounting
  <1>. QED
    BY <1>1, FramesConsistent, PTL

----------------------------------------------------------------------------
\* Only the outermost callback ever has the slot of callback_inflight_.
OneSlot ==
    /\ callbacks \in Seq(Invocation)
    /\ \A i \in 1..Len(callbacks) : callbacks[i] = "slot" => i = 1
    /\ cb_size = IF callbacks # <<>> /\ callbacks[1] = "slot" THEN 1 ELSE 0

\* When it has none it began after flush() closed the heap.
Closed ==
    /\ late \in BOOLEAN /\ cb_allocating \in BOOLEAN /\ fpc \in FlushPC
    /\ fpc \in {"wait", "pending"} \/ late => ~cb_allocating
    /\ callbacks # <<>> /\ callbacks[1] # "slot" => late
    /\ FlushWaitsForCallbacks

CallbackInv == OneSlot /\ Closed

\* What is left when the innermost callback ends.
LEMMA DropLast ==
    ASSUME NEW S, NEW s \in Seq(S), s # <<>>
    PROVE  LET r == SubSeq(s, 1, Len(s) - 1)
           IN  /\ r \in Seq(S) /\ Len(r) = Len(s) - 1 /\ Len(s) \in Nat \ {0}
               /\ \A i \in 1..Len(r) : r[i] = s[i]
               /\ r = <<>> <=> Len(r) = 0
  <1> DEFINE r == SubSeq(s, 1, Len(s) - 1)
  <1>1. Len(s) \in Nat \ {0}
    OBVIOUS
  <1>2. \A i \in 1..(Len(s) - 1) : s[i] \in S
    BY <1>1
  <1>3. /\ r \in Seq(S)
        /\ Len(r) = IF 1 <= Len(s) - 1 THEN (Len(s) - 1) - 1 + 1 ELSE 0
        /\ \A i \in 1..((Len(s) - 1) - 1 + 1) : r[i] = s[1 + i - 1]
    BY <1>1, <1>2, SubSeqProperties
  <1> HIDE DEF r
  <1>4. Len(r) = Len(s) - 1
    <2>1. ASSUME NEW n \in Nat \ {0}
          PROVE  (IF 1 <= n - 1 THEN (n - 1) - 1 + 1 ELSE 0) = n - 1
      BY <2>1
    <2>. QED
      BY <1>1, <1>3, <2>1
  <1>5. \A i \in 1..Len(r) : r[i] = s[i]
    BY <1>1, <1>3, <1>4
  <1>6. ASSUME NEW q \in Seq(S) PROVE q = <<>> <=> Len(q) = 0
    OBVIOUS
  <1>. QED
    BY <1>1, <1>3, <1>4, <1>5, <1>6 DEF r

LEMMA CallbacksConsistent == Spec => []CallbackInv
  <1>1. Init => CallbackInv
    <2> SUFFICES ASSUME Init PROVE CallbackInv
      OBVIOUS
    <2>1. callbacks = <<>> /\ callbacks \in Seq(Invocation) /\ Len(callbacks) = 0
      BY DEF Init
    <2>2. OneSlot
      BY <2>1 DEF Init, OneSlot
    <2>3. Closed
      BY <2>1 DEF Init, Closed, FlushPC, FlushWaitsForCallbacks
    <2>. QED
      BY <2>2, <2>3 DEF CallbackInv
  <1>2. CallbackInv /\ [Next]_vars => CallbackInv'
    <2> SUFFICES ASSUME CallbackInv, [Next]_vars PROVE CallbackInv'
      OBVIOUS
    <2> USE DEF CallbackInv, OneSlot, Closed, FlushWaitsForCallbacks
    <2>1. ASSUME UNCHANGED <<callbackVars, flushVars>> PROVE CallbackInv'
      BY <2>1 DEF callbackVars, flushVars
    <2>2. ASSUME NEW h \in Holder, HolderStep(h) PROVE UNCHANGED <<callbackVars, flushVars>>
      BY <2>2 DEF HolderStep, Publish, Allocate, Track, Clone, Keep, KeepFrame, Release,
                  UnpublishFrame, ResetSlot, FreeSlot, Delete
    <2>3. CASE BeginCallback
      <3>1. PICK v \in Invocation :
               /\ callbacks' = Append(callbacks, v)
               /\ v = "slot" <=> cb_allocating /\ cb_size = 0
               /\ cb_size' = IF v = "slot" THEN cb_size + 1 ELSE cb_size
        BY <2>3 DEF BeginCallback, Invocation
      <3>2. /\ callbacks' \in Seq(Invocation) /\ Len(callbacks') = Len(callbacks) + 1
            /\ Len(callbacks) \in Nat /\ callbacks' # <<>>
            /\ \A i \in 1..Len(callbacks) : callbacks'[i] = callbacks[i]
            /\ callbacks'[Len(callbacks) + 1] = v
            /\ callbacks = <<>> <=> Len(callbacks) = 0
        BY <3>1
      <3>3. CASE callbacks = <<>>
        <4>1. callbacks'[1] = v /\ Len(callbacks') = 1 /\ cb_size = 0 /\ late' = ~cb_allocating
          BY <2>3, <3>2, <3>3 DEF BeginCallback
        <4>2. OneSlot'
          BY <3>1, <3>2, <4>1
        <4>3. Closed'
          BY <2>3, <3>1, <3>2, <4>1 DEF BeginCallback, flushVars
        <4>. QED
          BY <4>2, <4>3
      <3>4. CASE callbacks # <<>>
        <4>1. callbacks'[1] = callbacks[1] /\ late' = late
          BY <2>3, <3>2, <3>4 DEF BeginCallback
        <4>2. OneSlot'
          <5>1. cb_size = IF callbacks[1] = "slot" THEN 1 ELSE 0
            BY <3>4
          <5>2. v # "slot"
            <6>1. CASE callbacks[1] = "slot"
              BY <3>1, <5>1, <6>1
            <6>2. CASE callbacks[1] # "slot"
              BY <3>1, <3>4, <6>2
            <6>. QED
              BY <6>1, <6>2
          <5>. QED
            BY <3>1, <3>2, <3>4, <4>1, <5>2
        <4>3. Closed'
          BY <2>3, <3>1, <3>2, <3>4, <4>1 DEF BeginCallback, flushVars
        <4>. QED
          BY <4>2, <4>3
      <3>. QED
        BY <3>3, <3>4
    <2>4. CASE EndCallback
      <3>1. /\ Len(callbacks) \in Nat \ {0}
            /\ callbacks' \in Seq(Invocation) /\ Len(callbacks') = Len(callbacks) - 1
            /\ \A i \in 1..Len(callbacks') : callbacks'[i] = callbacks[i]
            /\ callbacks' = <<>> <=> Len(callbacks') = 0
        BY <2>4, DropLast DEF EndCallback
      <3>2. OneSlot'
        BY <2>4, <3>1 DEF EndCallback
      <3>3. Closed'
        BY <2>4, <3>1 DEF EndCallback, flushVars
      <3>. QED
        BY <3>2, <3>3
    <2>5. CASE FlushStep
      <3>1. UNCHANGED <<callbacks, cb_size, late>>
        BY <2>5 DEF FlushStep, FlushStopFrames, FlushStopCallbacks, FlushWait, FlushReturn,
                    callbackVars
      <3>2. OneSlot'
        BY <3>1
      <3>3. CASE FlushWait
        <4>1. callbacks # <<>> => late
          BY <3>3 DEF FlushWait
        <4>. QED
          BY <3>1, <3>2, <3>3, <4>1 DEF FlushWait, callbackVars, FlushPC
      <3>4. CASE FlushStopFrames
        BY <3>1, <3>2, <3>4 DEF FlushStopFrames, callbackVars, FlushPC
      <3>5. CASE FlushStopCallbacks
        <4>1. fpc' = "wait" /\ cb_allocating' = FALSE
          BY <3>5 DEF FlushStopCallbacks
        <4>2. Closed'
          BY <3>1, <4>1 DEF FlushPC
        <4>. QED
          BY <3>2, <4>2
      <3>6. CASE FlushReturn
        BY <3>1, <3>2, <3>6 DEF FlushReturn, callbackVars, FlushPC
      <3>. QED
        BY <2>5, <3>3, <3>4, <3>5, <3>6 DEF FlushStep
    <2>6. CASE UNCHANGED vars
      BY <2>1, <2>6 DEF vars
    <2>. QED
      BY <2>1, <2>2, <2>3, <2>4, <2>5, <2>6 DEF Next
  <1>. QED
    BY <1>1, <1>2, PTL DEF Spec

\* flush() outlives the callbacks begun before it (FlushWaitsForCallbacks).
THEOREM FlushWaits == Spec => []FlushWaitsForCallbacks
  <1>1. CallbackInv => FlushWaitsForCallbacks
    BY DEF CallbackInv, Closed
  <1>. QED
    BY <1>1, CallbacksConsistent, PTL

PendingType == pending \in Nat

\* Type correctness; published_frames_count_ and size_ never go below zero (TypeOK).
THEOREM TypeCorrect == Spec => []TypeOK
  <1>1. FrameInv => size \in Nat /\ count \in Nat
    BY Finite DEF FrameInv, Accounting
  <1>2. Init => PendingType
    BY DEF Init, PendingType
  <1>3. FrameInv /\ PendingType /\ [Next]_vars => PendingType'
    <2> SUFFICES ASSUME FrameInv, PendingType, [Next]_vars PROVE PendingType'
      OBVIOUS
    <2>1. ASSUME NEW h \in Holder, HolderStep(h) PROVE UNCHANGED flushVars
      BY <2>1 DEF HolderStep, Publish, Allocate, Track, Clone, Keep, KeepFrame, Release,
                  UnpublishFrame, ResetSlot, FreeSlot, Delete
    <2>. QED
      BY <1>1, <2>1 DEF Next, BeginCallback, EndCallback, FlushStep, FlushStopFrames,
                        FlushStopCallbacks, FlushWait, FlushReturn, flushVars, vars, PendingType
  <1>4. FrameInv /\ CallbackInv /\ PendingType => TypeOK
    BY <1>1 DEF FrameInv, Types, CallbackInv, OneSlot, Closed, PendingType, TypeOK
  <1>. QED
    BY <1>2, <1>3, <1>4, FramesConsistent, CallbacksConsistent, PTL DEF Spec

----------------------------------------------------------------------------
(* DataUnits *)

UnitFrames ==
    /\ speed \in Speeds
    /\ frames \in Seq([kind : Units!Kinds, extension : Units!Supported,
                       frame_id : {Units!Profiles[x] : x \in DOMAIN Units!Profiles}, speed : Speeds])

UnitTypes ==
    /\ is_open \in BOOLEAN /\ failed \in BOOLEAN /\ sending \in BOOLEAN /\ cut \in BOOLEAN
    /\ received_size \in Nat /\ sent \in Nat /\ written \in Nat /\ cuts \in Nat

\* The bytes that count since the last tail: those of the files that were cut, and those
\* of this one.
UnitBytes ==
    /\ written <= sent /\ sent <= MaxSize /\ cuts <= MaxCuts
    /\ received_size <= cuts * MaxSize + (IF sending THEN sent ELSE 0)

\* While no file was cut, the stream is closed between files and takes everything within.
UnitExact ==
    ~cut => IF sending THEN ~failed /\ received_size = written ELSE ~is_open /\ received_size = 0

UnitInv == UnitFrames /\ UnitTypes /\ UnitBytes /\ UnitExact

\* Every kind of unit has an archive and a profile (gemini_serial_port.cc, frame_source.cc).
LEMMA KindsSupported ==
    ASSUME NEW kind \in Units!Kinds
    PROVE  /\ Units!ExtensionOf[kind] \in Units!Supported
           /\ Units!ExtensionOf[kind] \in DOMAIN Units!Profiles
  BY DEF Units!Kinds, Units!ExtensionOf, Units!Supported, Units!Profiles

LEMMA UnitInvariant == Units!Spec => []UnitInv
  <1> USE UnitsAssumed DEF Units!DataUnitsAssumption
  <1>1. Units!Init => UnitInv
    <2> SUFFICES ASSUME Units!Init
                 PROVE  UnitInv
      OBVIOUS
    <2> USE DEF Units!Init
    <2>1. UnitFrames
      BY EmptySeq DEF UnitFrames
    <2>2. UnitTypes
      BY DEF UnitTypes
    <2>3. UnitBytes
      BY DEF UnitBytes
    <2>4. UnitExact
      BY DEF UnitExact
    <2>. QED
      BY <2>1, <2>2, <2>3, <2>4 DEF UnitInv
  <1>2. UnitInv /\ [Units!Next]_(Units!vars) => UnitInv'
    <2> SUFFICES ASSUME UnitFrames, UnitTypes, UnitBytes, UnitExact, [Units!Next]_(Units!vars)
                 PROVE  UnitInv'
      BY DEF UnitInv
    <2> USE DEF Units!fileVars, Units!units, Units!statics
    <2>0. CASE UNCHANGED Units!vars
      BY <2>0 DEF Units!vars, UnitInv, UnitFrames, UnitTypes, UnitBytes, UnitExact
    <2>1. ASSUME NEW v \in Speeds, Units!Speed(v)
          PROVE  UnitInv'
      BY <2>1 DEF Units!Speed, UnitInv, UnitFrames, UnitTypes, UnitBytes, UnitExact
    <2>2. ASSUME NEW kind \in Units!Kinds, Units!Perception(kind)
          PROVE  UnitInv'
      <3> DEFINE x == Units!ExtensionOf[kind]
                 F == [kind : Units!Kinds, extension : Units!Supported,
                       frame_id : {Units!Profiles[y] : y \in DOMAIN Units!Profiles}, speed : Speeds]
                 f == [kind |-> kind, extension |-> x, frame_id |-> Units!Profiles[x], speed |-> speed]
      <3>1. frames' = Append(frames, f) /\ UNCHANGED <<speed, Units!fileVars>>
        BY <2>2 DEF Units!Perception
      <3>2. x \in Units!Supported /\ x \in DOMAIN Units!Profiles
        BY KindsSupported
      <3> HIDE DEF x
      <3>3. f \in F
        BY <3>2 DEF UnitFrames
      <3> HIDE DEF f
      <3>4. frames \in Seq(F) /\ speed \in Speeds
        BY DEF UnitFrames
      <3>5. UnitFrames'
        <4> HIDE DEF F
        <4>1. Append(frames, f) \in Seq(F)
          BY <3>3, <3>4, AppendProperties
        <4>2. frames' \in Seq(F) /\ speed' \in Speeds
          BY <3>1, <3>4, <4>1
        <4>. QED
          BY <4>2 DEF UnitFrames, F
      <3>6. UnitTypes' /\ UnitBytes' /\ UnitExact'
        BY <3>1 DEF UnitTypes, UnitBytes, UnitExact
      <3>. QED
        BY <3>5, <3>6 DEF UnitInv
    <2>3. CASE Units!FileHeader
      <3> USE <2>3 DEF Units!FileHeader
      <3>1. UnitFrames'
        BY DEF UnitFrames
      <3>2. UnitTypes'
        <4>1. (is_open \in BOOLEAN /\ failed \in BOOLEAN /\ sending \in BOOLEAN /\ cut \in BOOLEAN)'
          BY DEF UnitTypes
        <4>2. (received_size \in Nat /\ sent \in Nat /\ written \in Nat /\ cuts \in Nat)'
          BY DEF UnitTypes
        <4>. QED
          BY <4>1, <4>2 DEF UnitTypes
      <3>3. UnitBytes'
        BY DEF UnitTypes, UnitBytes
      <3>4. UnitExact'
        BY DEF UnitTypes, UnitExact
      <3>. QED
        BY <3>1, <3>2, <3>3, <3>4 DEF UnitInv
    <2>4. ASSUME NEW n \in 1 .. 2, Units!FileData(n)
          PROVE  UnitInv'
      <3> USE <2>4 DEF Units!FileData, Units!Respond
      <3>1. UnitFrames'
        BY DEF UnitFrames
      <3>2. UnitTypes'
        <4>1. (is_open \in BOOLEAN /\ failed \in BOOLEAN /\ sending \in BOOLEAN /\ cut \in BOOLEAN)'
          BY DEF UnitTypes
        <4>2. (received_size \in Nat /\ sent \in Nat /\ written \in Nat /\ cuts \in Nat)'
          BY DEF UnitTypes
        <4>. QED
          BY <4>1, <4>2 DEF UnitTypes
      <3>3. UnitBytes'
        BY DEF UnitTypes, UnitBytes
      <3>4. UnitExact'
        BY DEF UnitTypes, UnitExact
      <3>. QED
        BY <3>1, <3>2, <3>3, <3>4 DEF UnitInv
    <2>5. CASE Units!FileTail
      <3> USE <2>5 DEF Units!FileTail, Units!Respond
      <3>1. UnitFrames'
        BY DEF UnitFrames
      <3>2. UnitTypes'
        <4>1. (is_open \in BOOLEAN /\ failed \in BOOLEAN /\ sending \in BOOLEAN /\ cut \in BOOLEAN)'
          BY DEF UnitTypes
        <4>2. (received_size \in Nat /\ sent \in Nat /\ written \in Nat /\ cuts \in Nat)'
          BY DEF UnitTypes
        <4>. QED
          BY <4>1, <4>2 DEF UnitTypes
      <3>3. UnitBytes'
        BY DEF UnitTypes, UnitBytes
      <3>4. UnitExact'
        BY DEF UnitTypes, UnitExact
      <3>. QED
        BY <3>1, <3>2, <3>3, <3>4 DEF UnitInv
    <2>6. CASE Units!Cut
      <3> USE <2>6 DEF Units!Cut
      <3>1. UnitFrames'
        BY DEF UnitFrames
      <3>2. UnitTypes'
        <4>1. (is_open \in BOOLEAN /\ failed \in BOOLEAN /\ sending \in BOOLEAN /\ cut \in BOOLEAN)'
          BY DEF UnitTypes
        <4>2. (received_size \in Nat /\ sent \in Nat /\ written \in Nat /\ cuts \in Nat)'
          BY DEF UnitTypes
        <4>. QED
          BY <4>1, <4>2 DEF UnitTypes
      <3>3. UnitBytes'
        BY DEF UnitTypes, UnitBytes
      <3>4. UnitExact'
        BY DEF UnitTypes, UnitExact
      <3>. QED
        BY <3>1, <3>2, <3>3, <3>4 DEF UnitInv
    <2>. QED
      BY <2>0, <2>1, <2>2, <2>3, <2>4, <2>5, <2>6 DEF Units!Next
  <1>. QED
    BY <1>1, <1>2, PTL DEF Units!Spec

\* The units keep their types: every frame has an archive that gave it, and received_size
\* counts at most the files since the last tail, for any sizes, speeds and restarts of the
\* device (gemini_serial_port.cc:592-630).
THEOREM UnitTypeCorrect == Units!Spec => []Units!TypeOK
  <1>1. ASSUME UnitInv
        PROVE  Units!TypeOK
    <2> USE <1>1, UnitsAssumed DEF UnitInv, Units!DataUnitsAssumption
    <2>1. received_size <= (MaxCuts + 1) * MaxSize
      <3>1. received_size <= cuts * MaxSize + MaxSize
        BY DEF UnitTypes, UnitBytes
      <3>2. cuts * MaxSize <= MaxCuts * MaxSize
        BY DEF UnitTypes, UnitBytes
      <3>3. (MaxCuts + 1) * MaxSize = MaxCuts * MaxSize + MaxSize
        OBVIOUS
      <3>4. cuts * MaxSize \in Int /\ MaxCuts * MaxSize \in Int
        BY DEF UnitTypes
      <3>. QED
        BY <3>1, <3>2, <3>3, <3>4 DEF UnitTypes
    <2>2. \A i \in 1 .. Len(frames) :
            frames[i].kind \in Units!Kinds /\ frames[i].speed \in Speeds
            /\ frames[i].extension \in Units!Supported
      <3> DEFINE F == [kind : Units!Kinds, extension : Units!Supported,
                       frame_id : {Units!Profiles[y] : y \in DOMAIN Units!Profiles}, speed : Speeds]
      <3>1. frames \in Seq(F)
        BY DEF UnitFrames
      <3>2. \A f \in F : f.kind \in Units!Kinds /\ f.speed \in Speeds /\ f.extension \in Units!Supported
        OBVIOUS
      <3> HIDE DEF F
      <3>3. \A i \in 1 .. Len(frames) : frames[i] \in F
        BY <3>1, ElementOfSeq
      <3>. QED
        BY <3>2, <3>3
    <2>. QED
      BY <2>1, <2>2 DEF UnitFrames, UnitTypes, UnitBytes, Units!TypeOK
  <1>. QED
    BY <1>1, UnitInvariant, PTL

\* Each response reports the bytes that are in the file, and a transfer that the device
\* cut spoils at most the one that follows (gemini_serial_port.cc:592-630).
THEOREM ResponsesAreExact == Units!Spec => ResponsesExact
  <1>1. ASSUME UnitInv, [Units!Next]_(Units!vars)
        PROVE  [resp' # resp /\ ~cut => resp'.received = resp'.written]_(Units!vars)
    <2> SUFFICES ASSUME Units!Next, resp' # resp, ~cut
                 PROVE  resp'.received = resp'.written
      BY <1>1
    <2> USE DEF Units!fileVars, Units!units, Units!statics
    <2>1. (\E n \in 1 .. 2 : Units!FileData(n)) \/ Units!FileTail
      BY DEF Units!Next, Units!Speed, Units!Perception, Units!FileHeader, Units!Cut
    <2>2. sending /\ ~failed /\ received_size = written
      BY <1>1, <2>1 DEF UnitInv, UnitExact, Units!FileData, Units!FileTail
    <2>3. CASE Units!FileTail
      <3>1. resp' = [received |-> received_size, continued |-> FALSE, written |-> written]
        BY <2>3 DEF Units!FileTail, Units!Respond
      <3>. QED
        BY <2>2, <3>1
    <2>4. ASSUME NEW n \in 1 .. 2, Units!FileData(n)
          PROVE  resp'.received = resp'.written
      <3>1. resp' = [received |-> received_size', continued |-> TRUE, written |-> written']
        BY <2>4 DEF Units!FileData, Units!Respond
      <3>2. received_size' = written'
        BY <2>2, <2>4 DEF Units!FileData
      <3>. QED
        BY <3>1, <3>2
    <2>. QED
      BY <2>1, <2>3, <2>4
  <1>. QED
    BY <1>1, UnitInvariant, PTL DEF Units!Spec, ResponsesExact, Units!ResponsesExact

----------------------------------------------------------------------------
(* FrameAggregator *)

WorkerPCs == {"idle", "callback", "accepting", "handle", "size", "enqueue", "pop_front",
              "clear", "unref", "release"}
Controls == {"running", "clear", "reset", "stopped", "quiet", "destroyed"}

\* Where the worker has a frame that handleFrame has not seen, and where it has a set.
Unseen == wpc \in {"callback", "accepting", "handle"}
HasSet == wpc \in {"size", "enqueue", "pop_front", "clear", "unref"}

AggTypes ==
    /\ next \in (Nat \ {0}) \X Aggregator!Stream /\ lost \in Nat
    /\ ref \in [Aggregator!Frame -> Int]
    /\ worker_frame \in Aggregator!Frame \cup {NoFrame}
    /\ set \in Aggregator!Composite \cup {NoFrame}
    /\ user_set \in Aggregator!Composite \cup {NoFrame}
    /\ user_frame \in Aggregator!Frame \cup {NoFrame}
    /\ orphans \subseteq Aggregator!Frame
    /\ DOMAIN last_set \subseteq Aggregator!Stream
    /\ last_set \in [DOMAIN last_set -> Aggregator!Frame]
    /\ \A s \in DOMAIN last_set : Aggregator!Uid(last_set[s]) = s

AggControl ==
    /\ wpc \in WorkerPCs /\ control \in Controls
    /\ accepting \in BOOLEAN /\ processing_callback \in BOOLEAN /\ output_callback \in BOOLEAN
    /\ accepting <=> control = "running"
    /\ ~processing_callback => control \in {"stopped", "quiet", "destroyed"}
    /\ control \in {"quiet", "destroyed"} => wpc = "idle"
    /\ orphans # {} => control \in {"stopped", "quiet", "destroyed"}
    /\ wpc = "idle" <=> worker_frame = NoFrame
    /\ HasSet <=> set # NoFrame
    /\ wpc = "handle" => Aggregator!Uid(worker_frame) \in Aggregator!Stream
    /\ output_callback => wpc \in {"idle", "release"}

\* The composites alive are the ones that are referred to, as often as they count.
AggComposites ==
    /\ DOMAIN cref \subseteq Aggregator!Composite /\ IsFiniteSet(DOMAIN cref)
    /\ cref \in [DOMAIN cref -> Nat \ {0}]
    /\ \A c \in DOMAIN cref : cref[c] = Aggregator!CompositeRefs(c)
    /\ \A c \in {set, user_set} : c # NoFrame => c \in DOMAIN cref
    /\ queue \in Seq(DOMAIN cref)

Among(q, c) == \E i \in 1 .. Len(q) : q[i] = c
AllDistinct(q) == \A i, j \in 1 .. Len(q) : q[i] = q[j] => i = j

\* The queue holds no composite twice, and no more than it should.
AggQueue ==
    /\ Len(queue) <= Capacity /\ (wpc = "enqueue" => Len(queue) < Capacity)
    /\ AllDistinct(queue) /\ (wpc \in {"size", "enqueue", "pop_front"} => ~Among(queue, set))

AggFrames == \A f \in Aggregator!Frame : ref[f] = Aggregator!FrameRefs(f)

\* A frame that handleFrame has not seen has no other holder.
AggUnseen ==
    Unseen =>
        /\ worker_frame \notin Aggregator!Children(last_set)
        /\ worker_frame # user_frame /\ worker_frame \notin orphans
        /\ \A c \in DOMAIN cref : worker_frame \notin Aggregator!Children(c)

AggInv == AggTypes /\ AggControl /\ AggComposites /\ AggQueue /\ AggFrames /\ AggUnseen

LEMMA AggConstants ==
    /\ NStreams \in Nat \ {0} /\ MaxRound \in Nat /\ Capacity \in Nat \ {0}
    /\ NoFrame \notin Aggregator!Frame /\ NoFrame \notin Aggregator!Composite
  BY AggregatorAssumed DEF Aggregator!AggregatorAssumption

LEMMA AggCardinality ==
    ASSUME NEW S
    PROVE  Aggregator!Cardinality(S) = Cardinality(S)
  BY DEF Aggregator!IsFiniteSet, IsFiniteSet, Aggregator!Cardinality, Cardinality

LEMMA EmptyFunction ==
    /\ DOMAIN <<>> = {} /\ Aggregator!Children(<<>>) = {}
    /\ \A T : <<>> \in [DOMAIN <<>> -> T]
  <1>1. DOMAIN <<>> = {}
    OBVIOUS
  <1>2. \A T : <<>> \in [DOMAIN <<>> -> T]
    <2> SUFFICES ASSUME NEW T
                 PROVE  <<>> \in [DOMAIN <<>> -> T]
      OBVIOUS
    <2>1. <<>> \in Seq(T) /\ Len(<<>>) = 0
      BY EmptySeq
    <2>. QED
      BY <2>1, LenProperties
  <1>. QED
    BY <1>1, <1>2 DEF Aggregator!Children

LEMMA FrameParts ==
    ASSUME NEW f \in Aggregator!Frame
    PROVE  /\ Aggregator!Uid(f) \in Aggregator!Stream \cup {0}
           /\ Aggregator!Round(f) \in Nat \ {0}
           /\ f = <<Aggregator!Uid(f), Aggregator!Round(f)>>
  BY AggConstants DEF Aggregator!Frame, Aggregator!Uid, Aggregator!Round, Aggregator!Other

\* The composites that frame f is in, and the other holders of it.
Holding(f) == {c \in DOMAIN cref : f \in Aggregator!Children(c)}
Others(f) ==
    Aggregator!Indicator(worker_frame = f) + Aggregator!Indicator(f \in Aggregator!Children(last_set))
    + Aggregator!Indicator(user_frame = f) + Aggregator!Indicator(f \in orphans)

LEMMA HoldersOf ==
    ASSUME IsFiniteSet(DOMAIN cref), NEW f
    PROVE  /\ Aggregator!FrameRefs(f) = Others(f) + Cardinality(Holding(f))
           /\ Others(f) \in Nat /\ Cardinality(Holding(f)) \in Nat /\ IsFiniteSet(Holding(f))
           /\ Cardinality(Holding(f)) = 0 <=> Holding(f) = {}
  <1>1. Holding(f) \in SUBSET DOMAIN cref
    BY DEF Holding
  <1>2. IsFiniteSet(Holding(f))
    BY <1>1, FS_Subset
  <1>3. Cardinality(Holding(f)) \in Nat /\ (Cardinality(Holding(f)) = 0 <=> Holding(f) = {})
    BY <1>2, FS_CardinalityType, FS_EmptySet
  <1>4. Aggregator!Cardinality({c \in DOMAIN cref : f \in Aggregator!Children(c)}) = Cardinality(Holding(f))
    BY AggCardinality DEF Holding
  <1>5. Others(f) \in Nat
    BY DEF Others, Aggregator!Indicator
  <1>6. Aggregator!FrameRefs(f) = Others(f) + Cardinality(Holding(f))
    BY <1>3, <1>4 DEF Others, Aggregator!FrameRefs, Aggregator!Indicator
  <1>. QED
    BY <1>2, <1>3, <1>5, <1>6

\* What the release of some composites does to the counts of composites and frames.
LEMMA ReleaseStep ==
    ASSUME AggComposites, ref \in [Aggregator!Frame -> Int], NEW C \in SUBSET DOMAIN cref,
           Aggregator!ReleaseComposites(C)
    PROVE  /\ DOMAIN cref' = DOMAIN cref \ {c \in C : cref[c] = 1}
           /\ IsFiniteSet(DOMAIN cref') /\ cref' \in [DOMAIN cref' -> Nat \ {0}]
           /\ \A c \in DOMAIN cref' : cref'[c] = cref[c] - Aggregator!Indicator(c \in C)
           /\ ref' \in [Aggregator!Frame -> Int]
           /\ \A f \in Aggregator!Frame :
                 ref'[f] - Cardinality(Holding(f)') = ref[f] - Cardinality(Holding(f))
  <1> DEFINE dead == {c \in C : cref[c] = 1}
             lost_of(f) == {c \in dead : f \in Aggregator!Children(c)}
  <1>1. /\ cref' = [c \in DOMAIN cref \ dead |-> cref[c] - Aggregator!Indicator(c \in C)]
        /\ ref' = [f \in Aggregator!Frame |-> ref[f] - Aggregator!Cardinality(lost_of(f))]
    BY DEF Aggregator!ReleaseComposites
  <1>2. DOMAIN cref' = DOMAIN cref \ dead
    BY <1>1
  <1>3. IsFiniteSet(DOMAIN cref')
    <2>1. IsFiniteSet(DOMAIN cref)
      BY DEF AggComposites
    <2> HIDE DEF dead
    <2>2. IsFiniteSet(DOMAIN cref \ dead)
      BY <2>1, FS_Difference
    <2>. QED
      BY <1>2, <2>2
  <1>4. \A c \in DOMAIN cref' : cref'[c] = cref[c] - Aggregator!Indicator(c \in C)
    BY <1>1, <1>2
  <1>5. cref' \in [DOMAIN cref' -> Nat \ {0}]
    <2>1. \A c \in DOMAIN cref' : cref'[c] \in Nat \ {0}
      BY <1>2, <1>4 DEF AggComposites, Aggregator!Indicator
    <2>. QED
      BY <1>1, <2>1
  <1>6. ASSUME NEW f \in Aggregator!Frame
        PROVE  /\ Cardinality(lost_of(f)) \in Nat /\ ref'[f] = ref[f] - Cardinality(lost_of(f))
               /\ Cardinality(Holding(f)') = Cardinality(Holding(f)) - Cardinality(lost_of(f))
    <2>1. lost_of(f) \in SUBSET DOMAIN cref /\ Holding(f) \cap lost_of(f) = lost_of(f)
      BY DEF Holding
    <2>2. IsFiniteSet(lost_of(f))
      BY <2>1, FS_Subset DEF AggComposites
    <2>3. Cardinality(lost_of(f)) \in Nat
      BY <2>2, FS_CardinalityType
    <2>4. Holding(f)' = Holding(f) \ lost_of(f)
      BY <1>2 DEF Holding
    <2>5. IsFiniteSet(Holding(f))
      BY HoldersOf DEF AggComposites
    <2>6. Cardinality(Holding(f) \ lost_of(f)) = Cardinality(Holding(f)) - Cardinality(lost_of(f))
      BY <2>1, <2>5, FS_Difference
    <2>7. ref'[f] = ref[f] - Cardinality(lost_of(f))
      BY <1>1, AggCardinality
    <2>. QED
      BY <2>3, <2>4, <2>6, <2>7
  <1>7. ref' \in [Aggregator!Frame -> Int]
    <2>1. \A f \in Aggregator!Frame : ref'[f] \in Int
      <3> HIDE DEF lost_of
      <3>. QED
        BY <1>6
    <2>. QED
      BY <1>1, <2>1
  <1>8. \A f \in Aggregator!Frame :
          ref'[f] - Cardinality(Holding(f)') = ref[f] - Cardinality(Holding(f))
    <2> SUFFICES ASSUME NEW f \in Aggregator!Frame
                 PROVE  ref'[f] - Cardinality(Holding(f)') = ref[f] - Cardinality(Holding(f))
      OBVIOUS
    <2>1. Cardinality(Holding(f)) \in Nat /\ ref[f] \in Int
      BY HoldersOf DEF AggComposites
    <2> HIDE DEF lost_of
    <2>. QED
      BY <1>6, <2>1
  <1>. QED
    BY <1>2, <1>3, <1>4, <1>5, <1>7, <1>8

LEMMA QueueSet ==
    ASSUME NEW T, NEW q \in Seq(T), NEW c
    PROVE  c \in Aggregator!ToSet(q) <=> Among(q, c)
  BY LenProperties DEF Aggregator!ToSet, Among

LEMMA QueueEmpty == Len(<<>>) = 0 /\ AllDistinct(<<>>) /\ \A c : ~Among(<<>>, c)
  <1>1. Len(<<>>) = 0
    OBVIOUS
  <1>. QED
    BY <1>1 DEF AllDistinct, Among

LEMMA QueueTail ==
    ASSUME NEW T, NEW q \in Seq(T), q # <<>>, AllDistinct(q)
    PROVE  /\ Tail(q) \in Seq(T) /\ Len(Tail(q)) = Len(q) - 1 /\ AllDistinct(Tail(q))
           /\ Head(q) \in T /\ Among(q, Head(q))
           /\ \A c : Among(Tail(q), c) <=> Among(q, c) /\ c # Head(q)
  <1>1. /\ Tail(q) \in Seq(T) /\ Len(Tail(q)) = Len(q) - 1 /\ Len(q) \in Nat \ {0}
        /\ \A i \in 1 .. Len(Tail(q)) : Tail(q)[i] = q[i + 1]
        /\ Head(q) = q[1]
    BY HeadTailProperties, EmptySeq, LenProperties
  <1>2. Head(q) \in T /\ 1 \in 1 .. Len(q)
    BY <1>1, ElementOfSeq
  <1>3. AllDistinct(Tail(q))
    <2> SUFFICES ASSUME NEW i \in 1 .. Len(Tail(q)), NEW j \in 1 .. Len(Tail(q)),
                        Tail(q)[i] = Tail(q)[j]
                 PROVE  i = j
      BY DEF AllDistinct
    <2>1. i + 1 \in 1 .. Len(q) /\ j + 1 \in 1 .. Len(q) /\ q[i + 1] = q[j + 1]
      BY <1>1
    <2>2. i + 1 = j + 1
      BY <2>1 DEF AllDistinct
    <2>. QED
      BY <2>2
  <1>4. ASSUME NEW c, Among(Tail(q), c)
        PROVE  Among(q, c) /\ c # Head(q)
    <2>1. PICK i \in 1 .. Len(Tail(q)) : Tail(q)[i] = c
      BY <1>4 DEF Among
    <2>2. i + 1 \in 1 .. Len(q) /\ q[i + 1] = c /\ i + 1 # 1
      BY <1>1, <2>1
    <2>3. c # q[1]
      BY <1>2, <2>2 DEF AllDistinct
    <2>. QED
      BY <1>1, <2>2, <2>3 DEF Among
  <1>5. ASSUME NEW c, Among(q, c), c # Head(q)
        PROVE  Among(Tail(q), c)
    <2>1. PICK i \in 1 .. Len(q) : q[i] = c
      BY <1>5 DEF Among
    <2>2. i - 1 \in 1 .. Len(Tail(q)) /\ (i - 1) + 1 = i
      BY <1>1, <1>5, <2>1
    <2>3. Tail(q)[i - 1] = c
      BY <1>1, <2>1, <2>2
    <2>. QED
      BY <2>2, <2>3 DEF Among
  <1>. QED
    BY <1>1, <1>2, <1>3, <1>4, <1>5 DEF Among

LEMMA QueueAppend ==
    ASSUME NEW T, NEW q \in Seq(T), NEW d \in T, AllDistinct(q), ~Among(q, d)
    PROVE  /\ Append(q, d) \in Seq(T) /\ Len(Append(q, d)) = Len(q) + 1 /\ AllDistinct(Append(q, d))
           /\ \A c : Among(Append(q, d), c) <=> Among(q, c) \/ c = d
  <1> DEFINE p == Append(q, d)
  <1>1. /\ p \in Seq(T) /\ Len(p) = Len(q) + 1 /\ Len(q) \in Nat
        /\ \A i \in 1 .. Len(q) : p[i] = q[i]
        /\ p[Len(q) + 1] = d
    BY AppendProperties, LenProperties
  <1> HIDE DEF p
  <1>2. \A i \in 1 .. Len(p) : i \in 1 .. Len(q) \/ i = Len(q) + 1
    BY <1>1
  <1>3. 1 .. Len(q) \subseteq 1 .. Len(p) /\ Len(q) + 1 \in 1 .. Len(p)
    BY <1>1
  <1>4. AllDistinct(p)
    BY <1>1, <1>2 DEF AllDistinct, Among
  <1>5. \A c : Among(p, c) <=> Among(q, c) \/ c = d
    BY <1>1, <1>2, <1>3 DEF Among
  <1>. QED
    BY <1>1, <1>4, <1>5 DEF p

LEMMA FollowingType ==
    ASSUME AggTypes
    PROVE  /\ Aggregator!Following \in (Nat \ {0}) \X Aggregator!Stream
           /\ next[1] \in Nat \ {0} /\ next[2] \in Aggregator!Stream
           /\ next = <<next[1], next[2]>>
  <1>1. next[1] \in Nat \ {0} /\ next[2] \in 1 .. NStreams /\ next = <<next[1], next[2]>>
    BY DEF AggTypes, Aggregator!Stream
  <1>2. CASE next[2] = NStreams
    <2>1. next[1] + 1 \in Nat \ {0} /\ 1 \in 1 .. NStreams
      BY <1>1, AggConstants
    <2>. QED
      BY <1>1, <1>2, <2>1 DEF Aggregator!Following, Aggregator!Stream
  <1>3. CASE next[2] # NStreams
    <2>1. next[2] + 1 \in 1 .. NStreams
      BY <1>1, <1>3, AggConstants
    <2>. QED
      BY <1>1, <1>3, <2>1 DEF Aggregator!Following, Aggregator!Stream
  <1>. QED
    BY <1>2, <1>3

\* Changes of the counts of frames.
LEMMA CountStep ==
    ASSUME ref \in [Aggregator!Frame -> Int], NEW F
    PROVE  /\ Aggregator!Acquire(F) =>
                 /\ ref' \in [Aggregator!Frame -> Int]
                 /\ \A f \in Aggregator!Frame : ref'[f] = ref[f] + Aggregator!Indicator(f \in F)
           /\ Aggregator!Release(F) =>
                 /\ ref' \in [Aggregator!Frame -> Int]
                 /\ \A f \in Aggregator!Frame : ref'[f] = ref[f] - Aggregator!Indicator(f \in F)
  BY DEF Aggregator!Acquire, Aggregator!Release, Aggregator!Indicator

LEMMA HoldersPrimed ==
    ASSUME IsFiniteSet(DOMAIN cref'), NEW f
    PROVE  /\ Aggregator!FrameRefs(f)' = Others(f)' + Cardinality(Holding(f)')
           /\ Others(f)' \in Nat /\ Cardinality(Holding(f)') \in Nat
  <1>1. (IsFiniteSet(DOMAIN cref) =>
           /\ Aggregator!FrameRefs(f) = Others(f) + Cardinality(Holding(f))
           /\ Others(f) \in Nat /\ Cardinality(Holding(f)) \in Nat)'
    BY HoldersOf, PTL
  <1>. QED
    BY <1>1

LEMMA CountsAgree ==
    ASSUME AggFrames, IsFiniteSet(DOMAIN cref), IsFiniteSet(DOMAIN cref'),
           ref \in [Aggregator!Frame -> Int], ref' \in [Aggregator!Frame -> Int],
           \A f \in Aggregator!Frame : (ref'[f] - Cardinality(Holding(f)')) - (ref[f] - Cardinality(Holding(f)))
                                      = Others(f)' - Others(f)
    PROVE  AggFrames'
  <1> SUFFICES ASSUME NEW f \in Aggregator!Frame
               PROVE  ref'[f] = Aggregator!FrameRefs(f)'
    BY DEF AggFrames
  <1>1. /\ Aggregator!FrameRefs(f) = Others(f) + Cardinality(Holding(f))
        /\ Others(f) \in Nat /\ Cardinality(Holding(f)) \in Nat
    BY HoldersOf
  <1>2. /\ Aggregator!FrameRefs(f)' = Others(f)' + Cardinality(Holding(f)')
        /\ Others(f)' \in Nat /\ Cardinality(Holding(f)') \in Nat
    BY HoldersPrimed
  <1>3. ref[f] = Aggregator!FrameRefs(f) /\ ref[f] \in Int /\ ref'[f] \in Int
    BY DEF AggFrames
  <1>4. (ref'[f] - Cardinality(Holding(f)')) - (ref[f] - Cardinality(Holding(f))) = Others(f)' - Others(f)
    OBVIOUS
  <1>. QED
    BY <1>1, <1>2, <1>3, <1>4

\* What the release of some composites leaves: those whose last holder went are gone.
LEMMA CompositesStep ==
    ASSUME AggTypes, AggComposites, NEW C \in SUBSET DOMAIN cref, Aggregator!ReleaseComposites(C),
           \A c \in DOMAIN cref : Aggregator!CompositeRefs(c)' =
                                  Aggregator!CompositeRefs(c) - Aggregator!Indicator(c \in C),
           queue' \in Seq(DOMAIN cref), set' \in {set, NoFrame}, user_set' \in {user_set, NoFrame}
    PROVE  AggComposites'
  <1>1. /\ DOMAIN cref' = DOMAIN cref \ {c \in C : cref[c] = 1}
        /\ IsFiniteSet(DOMAIN cref') /\ cref' \in [DOMAIN cref' -> Nat \ {0}]
        /\ \A c \in DOMAIN cref' : cref'[c] = cref[c] - Aggregator!Indicator(c \in C)
    BY ReleaseStep DEF AggTypes
  <1>2. \A c \in DOMAIN cref' : cref'[c] = Aggregator!CompositeRefs(c)'
    BY <1>1 DEF AggComposites
  <1>3. ASSUME NEW c \in DOMAIN cref, c \notin DOMAIN cref'
        PROVE  c # set' /\ c # user_set' /\ ~Among(queue', c)
    <2>1. c \in C /\ Aggregator!CompositeRefs(c) = 1
      BY <1>1, <1>3 DEF AggComposites
    <2>2. Aggregator!CompositeRefs(c)' = 0
      BY <2>1 DEF Aggregator!Indicator
    <2>3. c \in Aggregator!ToSet(queue') <=> Among(queue', c)
      BY QueueSet
    <2>. QED
      BY <2>2, <2>3 DEF Aggregator!CompositeRefs, Aggregator!Indicator
  <1>4. \A c \in {set', user_set'} : c # NoFrame => c \in DOMAIN cref'
    <2>1. \A c \in {set', user_set'} : c # NoFrame => c \in DOMAIN cref
      BY DEF AggComposites
    <2>. QED
      BY <1>3, <2>1
  <1>5. queue' \in Seq(DOMAIN cref')
    <2>1. \A i \in 1 .. Len(queue') : queue'[i] \in DOMAIN cref'
      BY <1>3, ElementOfSeq DEF Among
    <2>2. Len(queue') \in Nat /\ queue' \in [1 .. Len(queue') -> DOMAIN cref]
      BY LenProperties
    <2>3. queue' \in [1 .. Len(queue') -> DOMAIN cref']
      BY <2>1, <2>2
    <2>. QED
      BY <2>2, <2>3, SeqDef
  <1>. QED
    BY <1>1, <1>2, <1>4, <1>5 DEF AggComposites

LEMMA AggStep ==
    ASSUME AggInv, Aggregator!Next
    PROVE  AggInv'
  <1> USE DEF AggInv, Aggregator!camera, Aggregator!worker, Aggregator!user, Aggregator!flags
  <1>1. ASSUME NEW f \in Aggregator!Frame, Aggregator!Arrive(f)
        PROVE  AggInv'
    <2> USE <1>1 DEF Aggregator!Arrive
    <2>a. /\ ref' \in [Aggregator!Frame -> Int] /\ next' \in (Nat \ {0}) \X Aggregator!Stream
          /\ worker_frame = NoFrame /\ set = NoFrame /\ f # NoFrame /\ ref[f] = 0
      BY FollowingType, AggConstants DEF AggTypes, AggControl, HasSet
    <2>b. Others(f) = 0 /\ Holding(f) = {}
      <3>1. ref[f] = Others(f) + Cardinality(Holding(f)) /\ Others(f) \in Nat
            /\ Cardinality(Holding(f)) \in Nat /\ (Cardinality(Holding(f)) = 0 <=> Holding(f) = {})
        BY HoldersOf DEF AggFrames, AggComposites
      <3>2. Others(f) = 0 /\ Cardinality(Holding(f)) = 0
        BY <2>a, <3>1
      <3>. QED
        BY <3>1, <3>2
    <2>c. f \notin Aggregator!Children(last_set) /\ user_frame # f /\ f \notin orphans
      BY <2>b DEF Others, Aggregator!Indicator
    <2>1. AggTypes'
      BY <2>a, FollowingType DEF AggTypes, AggControl
    <2>2. AggControl'
      <3>1. wpc' \in {"release", "callback"} /\ worker_frame' # NoFrame /\ set' = NoFrame
        BY <2>a
      <3>2. output_callback => wpc' = "release"
        OBVIOUS
      <3>3. control' \notin {"quiet", "destroyed"}
        BY DEF Aggregator!Sending
      <3>. QED
        BY <3>1, <3>2, <3>3 DEF AggControl, HasSet, WorkerPCs
    <2>3. AggComposites'
      BY DEF AggComposites, Aggregator!CompositeRefs
    <2>4. AggQueue'
      BY DEF AggQueue
    <2>5. AggFrames'
      <3>1. \A g : Holding(g)' = Holding(g)
        BY DEF Holding
      <3>2. ASSUME NEW g \in Aggregator!Frame
            PROVE  Others(g)' - Others(g) = ref'[g] - ref[g]
        <4>0. NoFrame # g
          BY AggConstants
        <4>1. Others(g)' - Others(g) = Aggregator!Indicator(f = g)
          BY <2>a, <4>0 DEF Others, Aggregator!Indicator
        <4>2. ref'[g] - ref[g] = Aggregator!Indicator(f = g)
          BY <2>a DEF AggTypes, Aggregator!Indicator
        <4>. QED
          BY <4>1, <4>2
      <3>3. ASSUME NEW g \in Aggregator!Frame
            PROVE  (ref'[g] - Cardinality(Holding(g)')) - (ref[g] - Cardinality(Holding(g)))
                      = Others(g)' - Others(g)
        <4>1. Cardinality(Holding(g)) \in Nat /\ ref[g] \in Int /\ ref'[g] \in Int
          BY <2>a, HoldersOf DEF AggComposites, AggTypes
        <4>. QED
          BY <3>1, <3>2, <4>1
      <3>. QED
        BY <2>a, <3>3, CountsAgree DEF AggComposites, AggTypes
    <2>6. AggUnseen'
      BY <2>b, <2>c DEF AggUnseen, Holding
    <2>. QED
      BY <2>1, <2>2, <2>3, <2>4, <2>5, <2>6
  <1>2. CASE Aggregator!Lose
    <2> USE <1>2 DEF Aggregator!Lose
    <2>1. AggTypes'
      BY AggConstants, FollowingType DEF AggTypes
    <2>2. AggControl'
      BY AggConstants DEF AggTypes, AggControl, HasSet, WorkerPCs, Controls
    <2>3. AggComposites'
      BY DEF AggComposites, Aggregator!CompositeRefs
    <2>4. AggQueue'
      BY DEF AggQueue
    <2>5. AggFrames'
      BY DEF AggFrames, Aggregator!FrameRefs
    <2>6. AggUnseen'
      BY DEF AggUnseen, Unseen
    <2>. QED
      BY <2>1, <2>2, <2>3, <2>4, <2>5, <2>6
  <1>3. CASE Aggregator!TestCallback
    <2> USE <1>3 DEF Aggregator!TestCallback
    <2>a. worker_frame \in Aggregator!Frame /\ set = NoFrame
      BY DEF AggTypes, AggControl, HasSet
    <2>1. AggTypes'
      BY <2>a, FollowingType DEF AggTypes, AggControl
    <2>2. AggControl'
      BY AggConstants DEF AggTypes, AggControl, HasSet, WorkerPCs, Controls
    <2>3. AggComposites'
      BY DEF AggComposites, Aggregator!CompositeRefs
    <2>4. AggQueue'
      BY DEF AggQueue
    <2>5. AggFrames'
      <3>1. ASSUME NEW g \in Aggregator!Frame
            PROVE  Aggregator!FrameRefs(g)' = Aggregator!FrameRefs(g)
        <4>1. worker_frame \notin orphans /\ NoFrame # g
          BY AggConstants DEF AggUnseen, Unseen
        <4>2. Aggregator!Indicator(worker_frame' = g) + Aggregator!Indicator(g \in orphans')
              = Aggregator!Indicator(worker_frame = g) + Aggregator!Indicator(g \in orphans)
          BY <4>1 DEF Aggregator!Indicator
        <4>3. Others(g)' = Others(g)
          BY <4>2 DEF Others, Aggregator!Indicator
        <4>4. Holding(g)' = Holding(g) /\ IsFiniteSet(DOMAIN cref)
          BY DEF Holding, AggComposites
        <4>5. IsFiniteSet(DOMAIN cref')
          BY DEF AggComposites
        <4>6. Aggregator!FrameRefs(g) = Others(g) + Cardinality(Holding(g))
          BY <4>4, HoldersOf
        <4>7. Aggregator!FrameRefs(g)' = Others(g)' + Cardinality(Holding(g)')
          BY <4>5, HoldersPrimed
        <4>. QED
          BY <4>3, <4>4, <4>6, <4>7
      <3>. QED
        BY <3>1 DEF AggFrames
    <2>6. AggUnseen'
      BY DEF AggUnseen, Unseen
    <2>. QED
      BY <2>1, <2>2, <2>3, <2>4, <2>5, <2>6
  <1>4. CASE Aggregator!TestAccepting
    <2> USE <1>4 DEF Aggregator!TestAccepting
    <2>a. worker_frame \in Aggregator!Frame
      BY DEF AggTypes, AggControl
    <2>1. AggTypes'
      BY AggConstants, FollowingType DEF AggTypes
    <2>2. AggControl'
      <3>1. wpc' = "handle" => Aggregator!Uid(worker_frame) \in Aggregator!Stream
        BY <2>a, FrameParts DEF Aggregator!Other
      <3>. QED
        BY <3>1 DEF AggControl, HasSet, WorkerPCs
    <2>3. AggComposites'
      BY DEF AggComposites, Aggregator!CompositeRefs
    <2>4. AggQueue'
      BY DEF AggQueue
    <2>5. AggFrames'
      BY DEF AggFrames, Aggregator!FrameRefs
    <2>6. AggUnseen'
      BY DEF AggUnseen, Unseen
    <2>. QED
      BY <2>1, <2>2, <2>3, <2>4, <2>5, <2>6
  <1>5. CASE Aggregator!HandleFrame
    <2> USE <1>5 DEF Aggregator!HandleFrame
    <2> DEFINE W == Aggregator!WithFrame
               u == Aggregator!Uid(worker_frame)
               old == IF u \in DOMAIN last_set THEN {last_set[u]} ELSE {}
               got_one == DOMAIN W = Aggregator!Stream /\ Aggregator!Cardinality(DOMAIN cref) < MaxSets
    <2>a. /\ worker_frame \in Aggregator!Frame /\ u \in Aggregator!Stream /\ set = NoFrame
          /\ ~output_callback /\ Unseen
      BY DEF AggTypes, AggControl, HasSet, Unseen
    <2>b. /\ last_set' = W /\ wpc' = (IF got_one THEN "size" ELSE "release")
          /\ set' = (IF got_one THEN W ELSE NoFrame)
          /\ cref' = (IF got_one THEN Aggregator!Composed(W) ELSE cref)
          /\ \A g \in Aggregator!Frame :
                ref'[g] = ref[g] + Aggregator!Indicator(g = worker_frame) - Aggregator!Indicator(g \in old)
                          + Aggregator!Indicator(got_one /\ g \in Aggregator!Children(W))
          /\ ref' \in [Aggregator!Frame -> Int] /\ lost' \in Nat
      BY DEF AggTypes, Aggregator!Indicator
    <2>c. /\ DOMAIN W = DOMAIN last_set \cup {u} /\ W[u] = worker_frame
          /\ \A s \in DOMAIN last_set : s # u => W[s] = last_set[s]
      BY DEF Aggregator!WithFrame
    <2>d. W \in [DOMAIN W -> Aggregator!Frame] /\ \A s \in DOMAIN W : Aggregator!Uid(W[s]) = s
      BY <2>a, <2>c DEF AggTypes, Aggregator!WithFrame
    <2>e. /\ worker_frame \in Aggregator!Children(W) /\ worker_frame \notin Aggregator!Children(last_set)
          /\ old \subseteq Aggregator!Children(last_set)
      BY <2>a, <2>c DEF Aggregator!Children, AggUnseen
    <2> HIDE DEF W
    <2>f. ASSUME NEW g
          PROVE  g \in Aggregator!Children(W) <=>
                    g = worker_frame \/ (g \in Aggregator!Children(last_set) /\ g \notin old)
      BY <2>c, <2>e DEF Aggregator!Children, AggTypes
    <2> HIDE DEF old, u
    <2>g. got_one => W \in Aggregator!Composite /\ W \notin DOMAIN cref /\ W # NoFrame
      BY <2>a, <2>d, <2>e, AggConstants DEF AggUnseen, Aggregator!Composite
    <2>h. got_one => /\ DOMAIN cref' = DOMAIN cref \cup {W} /\ cref'[W] = 1
                     /\ \A c \in DOMAIN cref : c # W => cref'[c] = cref[c]
      BY <2>b DEF Aggregator!Composed
    <2>i. IsFiniteSet(DOMAIN cref) /\ IsFiniteSet(DOMAIN cref')
      <3>1. IsFiniteSet(DOMAIN cref)
        BY DEF AggComposites
      <3>2. IsFiniteSet(DOMAIN cref \cup {W})
        BY <3>1, FS_AddElement
      <3>3. DOMAIN cref' = DOMAIN cref \/ DOMAIN cref' = DOMAIN cref \cup {W}
        BY <2>b, <2>h
      <3>. QED
        BY <3>1, <3>2, <3>3
    <2> HIDE DEF got_one
    <2>j. /\ queue \in Seq(DOMAIN cref) /\ queue' = queue /\ user_set' = user_set /\ (user_set # NoFrame => user_set \in DOMAIN cref)
          /\ user_frame' = user_frame /\ orphans' = orphans /\ worker_frame' = worker_frame /\ next' = next
          /\ control' = control /\ accepting' = accepting /\ processing_callback' = processing_callback
          /\ output_callback' = output_callback
      BY DEF AggComposites
    <2> HIDE <1>5 DEF Aggregator!HandleFrame
    <2>1. AggTypes'
      <3>1. DOMAIN W \subseteq Aggregator!Stream
        BY <2>a, <2>c DEF AggTypes, u
      <3>2. set' \in Aggregator!Composite \cup {NoFrame}
        BY <2>b, <2>g
      <3>. QED
        BY <2>b, <2>d, <2>j, <3>1, <3>2 DEF AggTypes
    <2>2. AggControl'
      <3>1. wpc' \in {"size", "release"} /\ (wpc' = "size" <=> set' # NoFrame)
        BY <2>b, <2>g
      <3>2. control \notin {"quiet", "destroyed"} /\ worker_frame # NoFrame
        BY <2>a, AggConstants DEF AggControl, Unseen
      <3>. QED
        BY <2>a, <2>j, <3>1, <3>2 DEF AggControl, HasSet, WorkerPCs
    <2>3. AggComposites'
      <3>1. CASE got_one
        <4>1. /\ DOMAIN cref' = DOMAIN cref \cup {W} /\ cref'[W] = 1 /\ set' = W
              /\ \A c \in DOMAIN cref : c # W => cref'[c] = cref[c]
              /\ W \in Aggregator!Composite /\ W \notin DOMAIN cref /\ W # NoFrame
          BY <2>b, <2>g, <2>h, <3>1
        <4>2. cref' \in [DOMAIN cref' -> Nat \ {0}]
          <5>1. cref' = Aggregator!Composed(W)
            BY <2>b, <3>1
          <5>. QED
            BY <5>1 DEF Aggregator!Composed, AggComposites
        <4>3. ~Among(queue, W)
          BY <2>j, <4>1, ElementOfSeq DEF Among
        <4>4. ASSUME NEW c \in DOMAIN cref'
              PROVE  cref'[c] = Aggregator!CompositeRefs(c)'
          <5>1. (c \in Aggregator!ToSet(queue) <=> Among(queue, c))
            BY <2>j, QueueSet
          <5>2. CASE c = W
            <6>1. set' = c /\ user_set' # c /\ c \notin Aggregator!ToSet(queue')
              BY <2>j, <4>1, <4>3, <5>1, <5>2
            <6>. QED
              BY <4>1, <5>2, <6>1 DEF Aggregator!CompositeRefs, Aggregator!Indicator
          <5>3. CASE c # W
            <6>1. c \in DOMAIN cref /\ set' # c /\ set # c /\ cref'[c] = cref[c]
              BY <2>a, <4>1, <5>3, AggConstants DEF AggComposites
            <6>2. Aggregator!CompositeRefs(c)' = Aggregator!CompositeRefs(c)
              BY <2>j, <6>1 DEF Aggregator!CompositeRefs, Aggregator!Indicator
            <6>. QED
              BY <6>1, <6>2 DEF AggComposites
          <5>. QED
            BY <5>2, <5>3
        <4>5. queue' \in Seq(DOMAIN cref')
          <5>1. \A i \in 1 .. Len(queue) : queue[i] \in DOMAIN cref'
            BY <2>j, <4>1, ElementOfSeq
          <5>. QED
            BY <2>j, <5>1, LenProperties, SeqDef
        <4>. QED
          BY <2>i, <2>j, <4>1, <4>2, <4>4, <4>5 DEF AggComposites
      <3>2. CASE ~got_one
        <4>1. cref' = cref /\ set' = NoFrame
          BY <2>b, <3>2
        <4>2. ASSUME NEW c \in DOMAIN cref
              PROVE  Aggregator!CompositeRefs(c)' = Aggregator!CompositeRefs(c)
          BY <2>a, <2>j, <4>1 DEF Aggregator!CompositeRefs
        <4>. QED
          BY <2>j, <4>1, <4>2 DEF AggComposites
      <3>. QED
        BY <3>1, <3>2
    <2>4. AggQueue'
      <3>1. wpc' = "size" => ~Among(queue', set')
        <4>1. got_one => ~Among(queue, W)
          BY <2>g, <2>j, ElementOfSeq DEF Among
        <4>. QED
          BY <2>b, <2>j, <4>1
      <3>2. wpc' \in {"size", "release"}
        BY <2>b
      <3>. QED
        BY <2>j, <3>1, <3>2 DEF AggQueue
    <2>5. AggFrames'
      <3>1. ASSUME NEW g \in Aggregator!Frame
            PROVE  Others(g)' - Others(g) = Aggregator!Indicator(g = worker_frame) - Aggregator!Indicator(g \in old)
        <4>1. Aggregator!Indicator(g \in Aggregator!Children(W)) - Aggregator!Indicator(g \in Aggregator!Children(last_set))
              = Aggregator!Indicator(g = worker_frame) - Aggregator!Indicator(g \in old)
          BY <2>e, <2>f DEF Aggregator!Indicator
        <4>2. /\ Aggregator!Indicator(g \in Aggregator!Children(W)) \in Int
              /\ Aggregator!Indicator(g \in Aggregator!Children(last_set)) \in Int
              /\ Aggregator!Indicator(worker_frame = g) \in Int
              /\ Aggregator!Indicator(user_frame = g) \in Int
              /\ Aggregator!Indicator(g \in orphans) \in Int
          BY DEF Aggregator!Indicator
        <4>3. Others(g) = Aggregator!Indicator(worker_frame = g) + Aggregator!Indicator(g \in Aggregator!Children(last_set))
                          + Aggregator!Indicator(user_frame = g) + Aggregator!Indicator(g \in orphans)
          BY DEF Others
        <4>4. Others(g)' = Aggregator!Indicator(worker_frame = g) + Aggregator!Indicator(g \in Aggregator!Children(W))
                          + Aggregator!Indicator(user_frame = g) + Aggregator!Indicator(g \in orphans)
          BY <2>b, <2>j DEF Others
        <4>. QED
          BY <4>1, <4>2, <4>3, <4>4
      <3>2. ASSUME NEW g \in Aggregator!Frame
            PROVE  Cardinality(Holding(g)') = Cardinality(Holding(g))
                      + Aggregator!Indicator(got_one /\ g \in Aggregator!Children(W))
        <4>1. Cardinality(Holding(g)) \in Nat /\ IsFiniteSet(Holding(g))
          BY <2>i, HoldersOf
        <4>2. CASE got_one /\ g \in Aggregator!Children(W)
          <5>1. Holding(g)' = Holding(g) \cup {W} /\ W \notin Holding(g)
            BY <2>g, <2>h, <4>2 DEF Holding
          <5>2. Cardinality(Holding(g) \cup {W}) = Cardinality(Holding(g)) + 1
            BY <4>1, <5>1, FS_AddElement
          <5>. QED
            BY <4>2, <5>1, <5>2 DEF Aggregator!Indicator
        <4>3. CASE ~(got_one /\ g \in Aggregator!Children(W))
          <5>1. Holding(g)' = Holding(g)
            BY <2>b, <2>h, <4>3 DEF Holding
          <5>. QED
            BY <4>1, <4>3, <5>1 DEF Aggregator!Indicator
        <4>. QED
          BY <4>2, <4>3
      <3>3. ASSUME NEW g \in Aggregator!Frame
            PROVE  (ref'[g] - Cardinality(Holding(g)')) - (ref[g] - Cardinality(Holding(g)))
                      = Others(g)' - Others(g)
        <4>1. Cardinality(Holding(g)) \in Nat /\ ref[g] \in Int
          BY <2>i, HoldersOf DEF AggTypes
        <4>2. /\ Aggregator!Indicator(got_one /\ g \in Aggregator!Children(W)) \in Int
              /\ Aggregator!Indicator(g = worker_frame) \in Int /\ Aggregator!Indicator(g \in old) \in Int
          BY DEF Aggregator!Indicator
        <4>3. ref'[g] = ref[g] + Aggregator!Indicator(g = worker_frame) - Aggregator!Indicator(g \in old)
                          + Aggregator!Indicator(got_one /\ g \in Aggregator!Children(W))
          BY <2>b
        <4>. QED
          BY <3>1, <3>2, <4>1, <4>2, <4>3
      <3>. QED
        BY <2>b, <2>i, <3>3, CountsAgree DEF AggTypes
    <2>6. AggUnseen'
      BY <2>b DEF AggUnseen, Unseen
    <2>. QED
      BY <2>1, <2>2, <2>3, <2>4, <2>5, <2>6
  <1>6. CASE Aggregator!TestSize
    <2> USE <1>6 DEF Aggregator!TestSize
    <2>1. AggTypes'
      BY AggConstants, FollowingType DEF AggTypes
    <2>2. AggControl'
      BY AggConstants DEF AggTypes, AggControl, HasSet, WorkerPCs, Controls
    <2>3. AggComposites'
      BY DEF AggComposites, Aggregator!CompositeRefs
    <2>4. AggQueue'
      BY DEF AggQueue
    <2>5. AggFrames'
      BY DEF AggFrames, Aggregator!FrameRefs
    <2>6. AggUnseen'
      BY DEF AggUnseen, Unseen
    <2>. QED
      BY <2>1, <2>2, <2>3, <2>4, <2>5, <2>6
  <1>7. CASE Aggregator!Enqueue
    <2> USE <1>7 DEF Aggregator!Enqueue
    <2>a. set \in DOMAIN cref /\ set # NoFrame /\ set \in Aggregator!Composite
      BY DEF AggControl, HasSet, AggComposites
    <2>b. queue \in Seq(DOMAIN cref) /\ AllDistinct(queue) /\ ~Among(queue, set)
      BY DEF AggComposites, AggQueue
    <2>c. queue_accepting => /\ queue' \in Seq(DOMAIN cref) /\ Len(queue') = Len(queue) + 1 /\ AllDistinct(queue')
                             /\ \A c : Among(queue', c) <=> Among(queue, c) \/ c = set
      <3>1. /\ Append(queue, set) \in Seq(DOMAIN cref) /\ Len(Append(queue, set)) = Len(queue) + 1
            /\ AllDistinct(Append(queue, set))
            /\ \A c : Among(Append(queue, set), c) <=> Among(queue, c) \/ c = set
        BY <2>a, <2>b, QueueAppend
      <3>2. queue_accepting => queue' = Append(queue, set)
        OBVIOUS
      <3>. QED
        BY <3>1, <3>2
    <2>d. DOMAIN cref' = DOMAIN cref /\ \A c \in DOMAIN cref : c # set => cref'[c] = cref[c]
      OBVIOUS
    <2>1. AggTypes'
      BY AggConstants, FollowingType DEF AggTypes
    <2>2. AggControl'
      BY AggConstants DEF AggTypes, AggControl, HasSet, WorkerPCs, Controls
    <2>3. AggComposites'
      <3>1. CASE queue_accepting
        <4>1. /\ cref' \in [DOMAIN cref -> Nat \ {0}] /\ cref'[set] = cref[set] + 1
              /\ \A c \in DOMAIN cref : cref'[c] = cref[c] + Aggregator!Indicator(c = set)
          BY <2>a, <3>1 DEF AggComposites, Aggregator!Indicator
        <4>2. ASSUME NEW c \in DOMAIN cref
              PROVE  Aggregator!CompositeRefs(c)' = Aggregator!CompositeRefs(c) + Aggregator!Indicator(c = set)
          <5>1. (c \in Aggregator!ToSet(queue) <=> Among(queue, c)) /\ (c \in Aggregator!ToSet(queue') <=> Among(queue', c))
            BY <2>b, <2>c, <3>1, QueueSet
          <5>. QED
            BY <2>b, <2>c, <3>1, <5>1 DEF Aggregator!CompositeRefs, Aggregator!Indicator
        <4>3. \A c \in DOMAIN cref' : cref'[c] = Aggregator!CompositeRefs(c)'
          BY <2>d, <4>1, <4>2 DEF AggComposites
        <4>. QED
          BY <2>c, <2>d, <3>1, <4>1, <4>3 DEF AggComposites
      <3>2. CASE ~queue_accepting
        BY <3>2 DEF AggComposites, Aggregator!CompositeRefs
      <3>. QED
        BY <3>1, <3>2
    <2>4. AggQueue'
      <3>1. CASE queue_accepting
        <4>1. Len(queue) < Capacity /\ Len(queue) \in Nat
          BY <2>b, LenProperties DEF AggQueue
        <4>. QED
          BY <2>c, <3>1, <4>1, AggConstants DEF AggQueue
      <3>2. CASE ~queue_accepting
        BY <3>2 DEF AggQueue
      <3>. QED
        BY <3>1, <3>2
    <2>5. AggFrames'
      <3>1. \A g : Holding(g)' = Holding(g) /\ Others(g)' = Others(g)
        BY <2>d DEF Holding, Others
      <3>. QED
        BY <3>1, <2>d DEF AggFrames, Aggregator!FrameRefs
    <2>6. AggUnseen'
      BY DEF AggUnseen, Unseen
    <2>. QED
      BY <2>1, <2>2, <2>3, <2>4, <2>5, <2>6
  <1>8. CASE Aggregator!PopFront
    <2> USE <1>8 DEF Aggregator!PopFront
    <2>a. queue \in Seq(DOMAIN cref) /\ AllDistinct(queue)
      BY DEF AggComposites, AggQueue
    <2> DEFINE C == IF queue = <<>> THEN {} ELSE {Head(queue)}
    <2>b. C \in SUBSET DOMAIN cref /\ Aggregator!ReleaseComposites(C)
      BY <2>a, QueueTail
    <2>c. /\ queue' \in Seq(DOMAIN cref) /\ AllDistinct(queue') /\ Len(queue') <= Len(queue)
          /\ \A c : Among(queue', c) <=> Among(queue, c) /\ c \notin C
      <3>1. CASE queue = <<>>
        <4>1. queue' = queue /\ C = {} /\ Len(queue) \in Nat
          BY <2>a, <3>1, LenProperties
        <4>. QED
          BY <2>a, <4>1
      <3>2. CASE queue # <<>>
        <4>1. queue' = Tail(queue) /\ C = {Head(queue)} /\ Len(queue) \in Nat
          BY <2>a, <3>2, LenProperties
        <4>2. /\ Tail(queue) \in Seq(DOMAIN cref) /\ AllDistinct(Tail(queue)) /\ Len(Tail(queue)) = Len(queue) - 1
              /\ \A c : Among(Tail(queue), c) <=> Among(queue, c) /\ c # Head(queue)
          BY <2>a, <3>2, QueueTail
        <4>. QED
          BY <4>1, <4>2
      <3>. QED
        BY <3>1, <3>2
    <2>d. \A c \in C : Among(queue, c)
      BY <2>a, QueueTail
    <2> HIDE DEF C
    <2>r. /\ DOMAIN cref' \subseteq DOMAIN cref /\ IsFiniteSet(DOMAIN cref')
          /\ ref' \in [Aggregator!Frame -> Int]
          /\ \A f \in Aggregator!Frame :
                ref'[f] - Cardinality(Holding(f)') = ref[f] - Cardinality(Holding(f))
      <3>1. C \in SUBSET DOMAIN cref
        BY <2>b
      <3>2. Aggregator!ReleaseComposites(C)
        BY <2>b
      <3>. QED
        BY <3>1, <3>2, ReleaseStep DEF AggTypes
    <2>1. AggTypes'
      BY <2>r DEF AggTypes
    <2>2. AggControl'
      BY AggConstants DEF AggTypes, AggControl, HasSet, WorkerPCs, Controls
    <2>3. AggComposites'
      <3>1. C \in SUBSET DOMAIN cref /\ Aggregator!ReleaseComposites(C)
        BY <2>b
      <3>2. ASSUME NEW c \in DOMAIN cref
            PROVE  Aggregator!CompositeRefs(c)' = Aggregator!CompositeRefs(c) - Aggregator!Indicator(c \in C)
        <4>1. (c \in Aggregator!ToSet(queue) <=> Among(queue, c)) /\ (c \in Aggregator!ToSet(queue') <=> Among(queue', c))
          BY <2>a, <2>c, QueueSet
        <4>. QED
          BY <2>c, <2>d, <4>1 DEF Aggregator!CompositeRefs, Aggregator!Indicator
      <3>3. queue' \in Seq(DOMAIN cref)
        BY <2>c
      <3>4. set' \in {set, NoFrame} /\ user_set' \in {user_set, NoFrame}
        OBVIOUS
      <3>. QED
        BY <3>1, <3>2, <3>3, <3>4, CompositesStep
    <2>4. AggQueue'
      <3>1. Len(queue') <= Capacity
        BY <2>a, <2>c, LenProperties, AggConstants DEF AggQueue
      <3>. QED
        BY <2>c, <3>1 DEF AggQueue
    <2>5. AggFrames'
      <3>1. \A g \in Aggregator!Frame : Others(g)' = Others(g) /\ Others(g) \in Nat
        BY DEF Others, Aggregator!Indicator
      <3>2. ASSUME NEW g \in Aggregator!Frame
            PROVE  (ref'[g] - Cardinality(Holding(g)')) - (ref[g] - Cardinality(Holding(g)))
                      = Others(g)' - Others(g)
        <4>1. Cardinality(Holding(g)) \in Nat /\ ref[g] \in Int
          BY HoldersOf DEF AggComposites, AggTypes
        <4>2. ref'[g] - Cardinality(Holding(g)') = ref[g] - Cardinality(Holding(g))
          BY <2>r
        <4>. QED
          BY <3>1, <4>1, <4>2
      <3>. QED
        BY <2>r, <3>2, CountsAgree DEF AggComposites, AggTypes
    <2>6. AggUnseen'
      BY <2>r DEF AggUnseen, Unseen
    <2>. QED
      BY <2>1, <2>2, <2>3, <2>4, <2>5, <2>6
  <1>9. CASE Aggregator!ClearLastSet
    <2> USE <1>9 DEF Aggregator!ClearLastSet
    <2>a. ref' \in [Aggregator!Frame -> Int] /\ ref \in [Aggregator!Frame -> Int]
      BY CountStep DEF AggTypes
    <2>b. \A g \in Aggregator!Frame : ref'[g] = ref[g] - Aggregator!Indicator(g \in Aggregator!Children(last_set))
      BY CountStep DEF AggTypes
    <2>1. AggTypes'
      BY <2>a, EmptyFunction DEF AggTypes
    <2>2. AggControl'
      BY AggConstants DEF AggTypes, AggControl, HasSet, WorkerPCs, Controls
    <2>3. AggComposites'
      BY DEF AggComposites, Aggregator!CompositeRefs
    <2>4. AggQueue'
      BY DEF AggQueue
    <2>5. AggFrames'
      <3>1. \A g : Holding(g)' = Holding(g)
        BY DEF Holding
      <3>2. ASSUME NEW g \in Aggregator!Frame
            PROVE  Others(g)' - Others(g) = ref'[g] - ref[g]
        <4>1. Others(g)' - Others(g) = 0 - Aggregator!Indicator(g \in Aggregator!Children(last_set))
          BY EmptyFunction, AggConstants DEF Others, Aggregator!Indicator
        <4>2. ref'[g] = ref[g] - Aggregator!Indicator(g \in Aggregator!Children(last_set)) /\ ref[g] \in Int
          BY <2>b DEF AggTypes
        <4>3. Aggregator!Indicator(g \in Aggregator!Children(last_set)) \in {0, 1}
          BY DEF Aggregator!Indicator
        <4>. QED
          BY <4>1, <4>2, <4>3
      <3>3. ASSUME NEW g \in Aggregator!Frame
            PROVE  (ref'[g] - Cardinality(Holding(g)')) - (ref[g] - Cardinality(Holding(g)))
                      = Others(g)' - Others(g)
        <4>1. Cardinality(Holding(g)) \in Nat /\ ref[g] \in Int /\ ref'[g] \in Int
          BY <2>a, HoldersOf DEF AggComposites, AggTypes
        <4>. QED
          BY <3>1, <3>2, <4>1
      <3>. QED
        BY <2>a, <3>3, CountsAgree DEF AggComposites, AggTypes
    <2>6. AggUnseen'
      BY EmptyFunction, AggConstants DEF AggUnseen, Unseen, AggTypes, AggControl
    <2>. QED
      BY <2>1, <2>2, <2>3, <2>4, <2>5, <2>6
  <1>10. CASE Aggregator!Unref
    <2> USE <1>10 DEF Aggregator!Unref
    <2>a. set \in DOMAIN cref /\ set # NoFrame /\ queue' = queue
      BY DEF AggControl, HasSet, AggComposites
    <2>r. /\ DOMAIN cref' \subseteq DOMAIN cref /\ IsFiniteSet(DOMAIN cref')
          /\ ref' \in [Aggregator!Frame -> Int]
          /\ \A f \in Aggregator!Frame :
                ref'[f] - Cardinality(Holding(f)') = ref[f] - Cardinality(Holding(f))
      <3>1. {set} \in SUBSET DOMAIN cref
        BY <2>a
      <3>2. Aggregator!ReleaseComposites({set})
        OBVIOUS
      <3>. QED
        BY <3>1, <3>2, ReleaseStep DEF AggTypes
    <2>1. AggTypes'
      BY <2>r DEF AggTypes
    <2>2. AggControl'
      BY AggConstants DEF AggTypes, AggControl, HasSet, WorkerPCs, Controls
    <2>3. AggComposites'
      <3>1. {set} \in SUBSET DOMAIN cref /\ Aggregator!ReleaseComposites({set})
        BY <2>a
      <3>2. ASSUME NEW c \in DOMAIN cref
            PROVE  Aggregator!CompositeRefs(c)' = Aggregator!CompositeRefs(c) - Aggregator!Indicator(c \in {set})
        <4>1. c # NoFrame
          BY AggConstants DEF AggComposites
        <4>. QED
          BY <2>a, <4>1 DEF Aggregator!CompositeRefs, Aggregator!Indicator
      <3>3. queue' \in Seq(DOMAIN cref)
        BY <2>a DEF AggComposites
      <3>4. set' \in {set, NoFrame} /\ user_set' \in {user_set, NoFrame}
        OBVIOUS
      <3>. QED
        BY <3>1, <3>2, <3>3, <3>4, CompositesStep
    <2>4. AggQueue'
      BY DEF AggQueue
    <2>5. AggFrames'
      <3>1. \A g \in Aggregator!Frame : Others(g)' = Others(g) /\ Others(g) \in Nat
        BY DEF Others, Aggregator!Indicator
      <3>2. ASSUME NEW g \in Aggregator!Frame
            PROVE  (ref'[g] - Cardinality(Holding(g)')) - (ref[g] - Cardinality(Holding(g)))
                      = Others(g)' - Others(g)
        <4>1. Cardinality(Holding(g)) \in Nat /\ ref[g] \in Int
          BY HoldersOf DEF AggComposites, AggTypes
        <4>2. ref'[g] - Cardinality(Holding(g)') = ref[g] - Cardinality(Holding(g))
          BY <2>r
        <4>. QED
          BY <3>1, <4>1, <4>2
      <3>. QED
        BY <2>r, <3>2, CountsAgree DEF AggComposites, AggTypes
    <2>6. AggUnseen'
      BY <2>r DEF AggUnseen, Unseen
    <2>. QED
      BY <2>1, <2>2, <2>3, <2>4, <2>5, <2>6
  <1>11. CASE Aggregator!ReleaseFrame
    <2> USE <1>11 DEF Aggregator!ReleaseFrame
    <2>a. ref' \in [Aggregator!Frame -> Int] /\ ref \in [Aggregator!Frame -> Int]
      BY CountStep DEF AggTypes
    <2>b. \A g \in Aggregator!Frame : ref'[g] = ref[g] - Aggregator!Indicator(g \in {worker_frame})
      BY CountStep DEF AggTypes
    <2>1. AggTypes'
      BY <2>a, EmptyFunction DEF AggTypes
    <2>2. AggControl'
      BY AggConstants DEF AggTypes, AggControl, HasSet, WorkerPCs, Controls
    <2>3. AggComposites'
      BY DEF AggComposites, Aggregator!CompositeRefs
    <2>4. AggQueue'
      BY DEF AggQueue
    <2>5. AggFrames'
      <3>1. \A g : Holding(g)' = Holding(g)
        BY DEF Holding
      <3>2. ASSUME NEW g \in Aggregator!Frame
            PROVE  Others(g)' - Others(g) = ref'[g] - ref[g]
        <4>1. Others(g)' - Others(g) = 0 - Aggregator!Indicator(g \in {worker_frame})
          BY EmptyFunction, AggConstants DEF Others, Aggregator!Indicator
        <4>2. ref'[g] = ref[g] - Aggregator!Indicator(g \in {worker_frame}) /\ ref[g] \in Int
          BY <2>b DEF AggTypes
        <4>3. Aggregator!Indicator(g \in {worker_frame}) \in {0, 1}
          BY DEF Aggregator!Indicator
        <4>. QED
          BY <4>1, <4>2, <4>3
      <3>3. ASSUME NEW g \in Aggregator!Frame
            PROVE  (ref'[g] - Cardinality(Holding(g)')) - (ref[g] - Cardinality(Holding(g)))
                      = Others(g)' - Others(g)
        <4>1. Cardinality(Holding(g)) \in Nat /\ ref[g] \in Int /\ ref'[g] \in Int
          BY <2>a, HoldersOf DEF AggComposites, AggTypes
        <4>. QED
          BY <3>1, <3>2, <4>1
      <3>. QED
        BY <2>a, <3>3, CountsAgree DEF AggComposites, AggTypes
    <2>6. AggUnseen'
      BY EmptyFunction, AggConstants DEF AggUnseen, Unseen, AggTypes, AggControl
    <2>. QED
      BY <2>1, <2>2, <2>3, <2>4, <2>5, <2>6
  <1>12. CASE Aggregator!Dequeue
    <2> USE <1>12 DEF Aggregator!Dequeue
    <2>a. queue \in Seq(DOMAIN cref) /\ AllDistinct(queue) /\ queue # <<>>
      BY DEF AggComposites, AggQueue
    <2>b. /\ Tail(queue) \in Seq(DOMAIN cref) /\ Len(Tail(queue)) = Len(queue) - 1 /\ AllDistinct(Tail(queue))
          /\ Head(queue) \in DOMAIN cref /\ Among(queue, Head(queue))
          /\ \A c : Among(Tail(queue), c) <=> Among(queue, c) /\ c # Head(queue)
      BY <2>a, QueueTail
    <2>1. AggTypes'
      BY <2>b DEF AggTypes, AggComposites
    <2>2. AggControl'
      BY AggConstants DEF AggTypes, AggControl, HasSet, WorkerPCs, Controls
    <2>3. AggComposites'
      <3>1. ASSUME NEW c \in DOMAIN cref
            PROVE  Aggregator!CompositeRefs(c)' = Aggregator!CompositeRefs(c)
        <4>1. (c \in Aggregator!ToSet(queue) <=> Among(queue, c)) /\ (c \in Aggregator!ToSet(queue') <=> Among(queue', c))
          BY <2>a, <2>b, QueueSet
        <4>2. c # NoFrame
          BY AggConstants DEF AggComposites
        <4>. QED
          BY <2>b, <4>1, <4>2 DEF Aggregator!CompositeRefs, Aggregator!Indicator
      <3>. QED
        BY <2>b, <3>1 DEF AggComposites
    <2>4. AggQueue'
      <3>1. Len(queue) \in Nat /\ Capacity \in Nat
        BY <2>a, LenProperties, AggConstants
      <3>. QED
        BY <2>b, <3>1 DEF AggQueue
    <2>5. AggFrames'
      BY DEF AggFrames, Aggregator!FrameRefs
    <2>6. AggUnseen'
      BY DEF AggUnseen, Unseen
    <2>. QED
      BY <2>1, <2>2, <2>3, <2>4, <2>5, <2>6
  <1>13. ASSUME NEW s \in Aggregator!Stream, Aggregator!FirstOrDefault(s)
        PROVE  AggInv'
    <2> USE <1>13 DEF Aggregator!FirstOrDefault
    <2>x. user_set \in DOMAIN cref /\ user_set \in [Aggregator!Stream -> Aggregator!Frame]
      BY DEF AggComposites, Aggregator!Composite
    <2>y. user_set[s] \in Aggregator!Frame /\ user_set[s] \in Aggregator!Children(user_set)
      BY <2>x DEF Aggregator!Children
    <2>a. ref' \in [Aggregator!Frame -> Int] /\ ref \in [Aggregator!Frame -> Int]
      BY CountStep DEF AggTypes
    <2>b. \A g \in Aggregator!Frame : ref'[g] = ref[g] + Aggregator!Indicator(g \in {user_set[s]})
      BY CountStep DEF AggTypes
    <2>1. AggTypes'
      BY <2>a, <2>y DEF AggTypes
    <2>2. AggControl'
      BY AggConstants DEF AggTypes, AggControl, HasSet, WorkerPCs, Controls
    <2>3. AggComposites'
      BY DEF AggComposites, Aggregator!CompositeRefs
    <2>4. AggQueue'
      BY DEF AggQueue
    <2>5. AggFrames'
      <3>1. \A g : Holding(g)' = Holding(g)
        BY DEF Holding
      <3>2. ASSUME NEW g \in Aggregator!Frame
            PROVE  Others(g)' - Others(g) = ref'[g] - ref[g]
        <4>1. Others(g)' - Others(g) = Aggregator!Indicator(g \in {user_set[s]})
          BY <2>y, AggConstants DEF Others, Aggregator!Indicator
        <4>2. ref'[g] = ref[g] + Aggregator!Indicator(g \in {user_set[s]}) /\ ref[g] \in Int
          BY <2>b DEF AggTypes
        <4>3. Aggregator!Indicator(g \in {user_set[s]}) \in {0, 1}
          BY DEF Aggregator!Indicator
        <4>. QED
          BY <4>1, <4>2, <4>3
      <3>3. ASSUME NEW g \in Aggregator!Frame
            PROVE  (ref'[g] - Cardinality(Holding(g)')) - (ref[g] - Cardinality(Holding(g)))
                      = Others(g)' - Others(g)
        <4>1. Cardinality(Holding(g)) \in Nat /\ ref[g] \in Int /\ ref'[g] \in Int
          BY <2>a, HoldersOf DEF AggComposites, AggTypes
        <4>. QED
          BY <3>1, <3>2, <4>1
      <3>. QED
        BY <2>a, <3>3, CountsAgree DEF AggComposites, AggTypes
    <2>6. AggUnseen'
      BY <2>x, <2>y DEF AggUnseen, Unseen
    <2>. QED
      BY <2>1, <2>2, <2>3, <2>4, <2>5, <2>6
  <1>14. CASE Aggregator!DropFrame
    <2> USE <1>14 DEF Aggregator!DropFrame
    <2>a. ref' \in [Aggregator!Frame -> Int] /\ ref \in [Aggregator!Frame -> Int]
      BY CountStep DEF AggTypes
    <2>b. \A g \in Aggregator!Frame : ref'[g] = ref[g] - Aggregator!Indicator(g \in {user_frame})
      BY CountStep DEF AggTypes
    <2>1. AggTypes'
      BY <2>a, EmptyFunction DEF AggTypes
    <2>2. AggControl'
      BY AggConstants DEF AggTypes, AggControl, HasSet, WorkerPCs, Controls
    <2>3. AggComposites'
      BY DEF AggComposites, Aggregator!CompositeRefs
    <2>4. AggQueue'
      BY DEF AggQueue
    <2>5. AggFrames'
      <3>1. \A g : Holding(g)' = Holding(g)
        BY DEF Holding
      <3>2. ASSUME NEW g \in Aggregator!Frame
            PROVE  Others(g)' - Others(g) = ref'[g] - ref[g]
        <4>1. Others(g)' - Others(g) = 0 - Aggregator!Indicator(g \in {user_frame})
          BY EmptyFunction, AggConstants DEF Others, Aggregator!Indicator
        <4>2. ref'[g] = ref[g] - Aggregator!Indicator(g \in {user_frame}) /\ ref[g] \in Int
          BY <2>b DEF AggTypes
        <4>3. Aggregator!Indicator(g \in {user_frame}) \in {0, 1}
          BY DEF Aggregator!Indicator
        <4>. QED
          BY <4>1, <4>2, <4>3
      <3>3. ASSUME NEW g \in Aggregator!Frame
            PROVE  (ref'[g] - Cardinality(Holding(g)')) - (ref[g] - Cardinality(Holding(g)))
                      = Others(g)' - Others(g)
        <4>1. Cardinality(Holding(g)) \in Nat /\ ref[g] \in Int /\ ref'[g] \in Int
          BY <2>a, HoldersOf DEF AggComposites, AggTypes
        <4>. QED
          BY <3>1, <3>2, <4>1
      <3>. QED
        BY <2>a, <3>3, CountsAgree DEF AggComposites, AggTypes
    <2>6. AggUnseen'
      BY EmptyFunction, AggConstants DEF AggUnseen, Unseen, AggTypes, AggControl
    <2>. QED
      BY <2>1, <2>2, <2>3, <2>4, <2>5, <2>6
  <1>15. CASE Aggregator!DropSet
    <2> USE <1>15 DEF Aggregator!DropSet
    <2>a. user_set \in DOMAIN cref /\ user_set # NoFrame /\ queue' = queue
      BY DEF AggControl, HasSet, AggComposites
    <2>r. /\ DOMAIN cref' \subseteq DOMAIN cref /\ IsFiniteSet(DOMAIN cref')
          /\ ref' \in [Aggregator!Frame -> Int]
          /\ \A f \in Aggregator!Frame :
                ref'[f] - Cardinality(Holding(f)') = ref[f] - Cardinality(Holding(f))
      <3>1. {user_set} \in SUBSET DOMAIN cref
        BY <2>a
      <3>2. Aggregator!ReleaseComposites({user_set})
        OBVIOUS
      <3>. QED
        BY <3>1, <3>2, ReleaseStep DEF AggTypes
    <2>1. AggTypes'
      BY <2>r DEF AggTypes
    <2>2. AggControl'
      BY AggConstants DEF AggTypes, AggControl, HasSet, WorkerPCs, Controls
    <2>3. AggComposites'
      <3>1. {user_set} \in SUBSET DOMAIN cref /\ Aggregator!ReleaseComposites({user_set})
        BY <2>a
      <3>2. ASSUME NEW c \in DOMAIN cref
            PROVE  Aggregator!CompositeRefs(c)' = Aggregator!CompositeRefs(c) - Aggregator!Indicator(c \in {user_set})
        <4>1. c # NoFrame
          BY AggConstants DEF AggComposites
        <4>. QED
          BY <2>a, <4>1 DEF Aggregator!CompositeRefs, Aggregator!Indicator
      <3>3. queue' \in Seq(DOMAIN cref)
        BY <2>a DEF AggComposites
      <3>4. set' \in {set, NoFrame} /\ user_set' \in {user_set, NoFrame}
        OBVIOUS
      <3>. QED
        BY <3>1, <3>2, <3>3, <3>4, CompositesStep
    <2>4. AggQueue'
      BY DEF AggQueue
    <2>5. AggFrames'
      <3>1. \A g \in Aggregator!Frame : Others(g)' = Others(g) /\ Others(g) \in Nat
        BY DEF Others, Aggregator!Indicator
      <3>2. ASSUME NEW g \in Aggregator!Frame
            PROVE  (ref'[g] - Cardinality(Holding(g)')) - (ref[g] - Cardinality(Holding(g)))
                      = Others(g)' - Others(g)
        <4>1. Cardinality(Holding(g)) \in Nat /\ ref[g] \in Int
          BY HoldersOf DEF AggComposites, AggTypes
        <4>2. ref'[g] - Cardinality(Holding(g)') = ref[g] - Cardinality(Holding(g))
          BY <2>r
        <4>. QED
          BY <3>1, <4>1, <4>2
      <3>. QED
        BY <2>r, <3>2, CountsAgree DEF AggComposites, AggTypes
    <2>6. AggUnseen'
      BY <2>r DEF AggUnseen, Unseen
    <2>. QED
      BY <2>1, <2>2, <2>3, <2>4, <2>5, <2>6
  <1>16. CASE Aggregator!StopAccepting
    <2> USE <1>16 DEF Aggregator!StopAccepting, Aggregator!Control
    <2>1. AggTypes'
      BY AggConstants, FollowingType DEF AggTypes
    <2>2. AggControl'
      BY AggConstants DEF AggTypes, AggControl, HasSet, WorkerPCs, Controls
    <2>3. AggComposites'
      BY DEF AggComposites, Aggregator!CompositeRefs
    <2>4. AggQueue'
      BY DEF AggQueue
    <2>5. AggFrames'
      BY DEF AggFrames, Aggregator!FrameRefs
    <2>6. AggUnseen'
      BY DEF AggUnseen, Unseen
    <2>. QED
      BY <2>1, <2>2, <2>3, <2>4, <2>5, <2>6
  <1>17. CASE Aggregator!StopClear
    <2> USE <1>17 DEF Aggregator!StopClear, Aggregator!Control
    <2>a. queue \in Seq(DOMAIN cref)
      BY DEF AggComposites
    <2> DEFINE C == Aggregator!ToSet(queue)
    <2>b. C \in SUBSET DOMAIN cref /\ Aggregator!ReleaseComposites(C)
      <3>1. \A c \in C : c \in DOMAIN cref
        BY <2>a, QueueSet, ElementOfSeq DEF Among
      <3>. QED
        BY <3>1
    <2>c. /\ queue' \in Seq(DOMAIN cref) /\ AllDistinct(queue') /\ Len(queue') = 0
          /\ \A c : ~Among(queue', c)
      BY QueueEmpty, EmptySeq
    <2>d. \A c : c \in C <=> Among(queue, c)
      BY <2>a, QueueSet
    <2> HIDE DEF C
    <2>r. /\ DOMAIN cref' \subseteq DOMAIN cref /\ IsFiniteSet(DOMAIN cref')
          /\ ref' \in [Aggregator!Frame -> Int]
          /\ \A f \in Aggregator!Frame :
                ref'[f] - Cardinality(Holding(f)') = ref[f] - Cardinality(Holding(f))
      <3>1. C \in SUBSET DOMAIN cref
        BY <2>b
      <3>2. Aggregator!ReleaseComposites(C)
        BY <2>b
      <3>. QED
        BY <3>1, <3>2, ReleaseStep DEF AggTypes
    <2>1. AggTypes'
      BY <2>r DEF AggTypes
    <2>2. AggControl'
      BY AggConstants DEF AggTypes, AggControl, HasSet, WorkerPCs, Controls
    <2>3. AggComposites'
      <3>1. C \in SUBSET DOMAIN cref /\ Aggregator!ReleaseComposites(C)
        BY <2>b
      <3>2. ASSUME NEW c \in DOMAIN cref
            PROVE  Aggregator!CompositeRefs(c)' = Aggregator!CompositeRefs(c) - Aggregator!Indicator(c \in C)
        <4>1. (c \in Aggregator!ToSet(queue) <=> Among(queue, c)) /\ (c \in Aggregator!ToSet(queue') <=> Among(queue', c))
          BY <2>a, <2>c, QueueSet
        <4>. QED
          BY <2>c, <2>d, <4>1 DEF Aggregator!CompositeRefs, Aggregator!Indicator
      <3>3. queue' \in Seq(DOMAIN cref)
        BY <2>c
      <3>4. set' \in {set, NoFrame} /\ user_set' \in {user_set, NoFrame}
        OBVIOUS
      <3>. QED
        BY <3>1, <3>2, <3>3, <3>4, CompositesStep
    <2>4. AggQueue'
      <3>1. Len(queue') = 0
        BY <2>c
      <3>2. Len(queue') <= Capacity /\ Len(queue') < Capacity
        BY <3>1, AggConstants
      <3>. QED
        BY <2>c, <2>d, <3>2 DEF AggQueue
    <2>5. AggFrames'
      <3>1. \A g \in Aggregator!Frame : Others(g)' = Others(g) /\ Others(g) \in Nat
        BY DEF Others, Aggregator!Indicator
      <3>2. ASSUME NEW g \in Aggregator!Frame
            PROVE  (ref'[g] - Cardinality(Holding(g)')) - (ref[g] - Cardinality(Holding(g)))
                      = Others(g)' - Others(g)
        <4>1. Cardinality(Holding(g)) \in Nat /\ ref[g] \in Int
          BY HoldersOf DEF AggComposites, AggTypes
        <4>2. ref'[g] - Cardinality(Holding(g)') = ref[g] - Cardinality(Holding(g))
          BY <2>r
        <4>. QED
          BY <3>1, <4>1, <4>2
      <3>. QED
        BY <2>r, <3>2, CountsAgree DEF AggComposites, AggTypes
    <2>6. AggUnseen'
      BY <2>r DEF AggUnseen, Unseen
    <2>. QED
      BY <2>1, <2>2, <2>3, <2>4, <2>5, <2>6
  <1>18. CASE Aggregator!StopReset
    <2> USE <1>18 DEF Aggregator!StopReset, Aggregator!Control
    <2>1. AggTypes'
      BY AggConstants, FollowingType DEF AggTypes
    <2>2. AggControl'
      BY AggConstants DEF AggTypes, AggControl, HasSet, WorkerPCs, Controls
    <2>3. AggComposites'
      BY DEF AggComposites, Aggregator!CompositeRefs
    <2>4. AggQueue'
      BY DEF AggQueue
    <2>5. AggFrames'
      BY DEF AggFrames, Aggregator!FrameRefs
    <2>6. AggUnseen'
      BY DEF AggUnseen, Unseen
    <2>. QED
      BY <2>1, <2>2, <2>3, <2>4, <2>5, <2>6
  <1>19. CASE Aggregator!SensorStops
    <2> USE <1>19 DEF Aggregator!SensorStops, Aggregator!Control
    <2>1. AggTypes'
      BY AggConstants, FollowingType DEF AggTypes
    <2>2. AggControl'
      BY AggConstants DEF AggTypes, AggControl, HasSet, WorkerPCs, Controls
    <2>3. AggComposites'
      BY DEF AggComposites, Aggregator!CompositeRefs
    <2>4. AggQueue'
      BY DEF AggQueue
    <2>5. AggFrames'
      BY DEF AggFrames, Aggregator!FrameRefs
    <2>6. AggUnseen'
      BY DEF AggUnseen, Unseen
    <2>. QED
      BY <2>1, <2>2, <2>3, <2>4, <2>5, <2>6
  <1>20. CASE Aggregator!Destroy
    <2> USE <1>20 DEF Aggregator!Destroy, Aggregator!Control
    <2>a. ref' \in [Aggregator!Frame -> Int] /\ ref \in [Aggregator!Frame -> Int]
      BY CountStep DEF AggTypes
    <2>b. \A g \in Aggregator!Frame : ref'[g] = ref[g] - Aggregator!Indicator(g \in Aggregator!Children(last_set))
      BY CountStep DEF AggTypes
    <2>1. AggTypes'
      BY <2>a, EmptyFunction DEF AggTypes
    <2>2. AggControl'
      BY AggConstants DEF AggTypes, AggControl, HasSet, WorkerPCs, Controls
    <2>3. AggComposites'
      BY DEF AggComposites, Aggregator!CompositeRefs
    <2>4. AggQueue'
      BY DEF AggQueue
    <2>5. AggFrames'
      <3>1. \A g : Holding(g)' = Holding(g)
        BY DEF Holding
      <3>2. ASSUME NEW g \in Aggregator!Frame
            PROVE  Others(g)' - Others(g) = ref'[g] - ref[g]
        <4>1. Others(g)' - Others(g) = 0 - Aggregator!Indicator(g \in Aggregator!Children(last_set))
          BY EmptyFunction, AggConstants DEF Others, Aggregator!Indicator
        <4>2. ref'[g] = ref[g] - Aggregator!Indicator(g \in Aggregator!Children(last_set)) /\ ref[g] \in Int
          BY <2>b DEF AggTypes
        <4>3. Aggregator!Indicator(g \in Aggregator!Children(last_set)) \in {0, 1}
          BY DEF Aggregator!Indicator
        <4>. QED
          BY <4>1, <4>2, <4>3
      <3>3. ASSUME NEW g \in Aggregator!Frame
            PROVE  (ref'[g] - Cardinality(Holding(g)')) - (ref[g] - Cardinality(Holding(g)))
                      = Others(g)' - Others(g)
        <4>1. Cardinality(Holding(g)) \in Nat /\ ref[g] \in Int /\ ref'[g] \in Int
          BY <2>a, HoldersOf DEF AggComposites, AggTypes
        <4>. QED
          BY <3>1, <3>2, <4>1
      <3>. QED
        BY <2>a, <3>3, CountsAgree DEF AggComposites, AggTypes
    <2>6. AggUnseen'
      BY EmptyFunction, AggConstants DEF AggUnseen, Unseen, AggTypes, AggControl
    <2>. QED
      BY <2>1, <2>2, <2>3, <2>4, <2>5, <2>6
  <1>. QED
    BY <1>1, <1>2, <1>3, <1>4, <1>5, <1>6, <1>7, <1>8, <1>9, <1>10,
       <1>11, <1>12, <1>13, <1>14, <1>15, <1>16, <1>17, <1>18, <1>19, <1>20
       DEF Aggregator!Next, Aggregator!WorkerStep, Aggregator!UserStep, Aggregator!ControlStep

LEMMA AggInvariant == Aggregator!Spec => []AggInv
  <1>1. Aggregator!Init => AggInv
    <2> SUFFICES ASSUME Aggregator!Init
                 PROVE  AggInv
      OBVIOUS
    <2> USE DEF Aggregator!Init, Aggregator!BlockInit
    <2>1. AggTypes
      <3>1. 1 \in Aggregator!Stream
        BY AggConstants DEF Aggregator!Stream
      <3>2. next \in (Nat \ {0}) \X Aggregator!Stream
        BY <3>1
      <3>. QED
        BY <3>2, EmptyFunction DEF AggTypes
    <2>2. AggControl
      BY DEF AggControl, HasSet, WorkerPCs, Controls
    <2>3. AggComposites
      BY EmptyFunction, EmptySeq, FS_EmptySet DEF AggComposites
    <2>4. AggQueue
      BY QueueEmpty, AggConstants DEF AggQueue
    <2>5. AggFrames
      <3> SUFFICES ASSUME NEW f \in Aggregator!Frame
                   PROVE  ref[f] = Aggregator!FrameRefs(f)
        BY DEF AggFrames
      <3>1. f # NoFrame
        BY AggConstants
      <3>2. Others(f) = 0
        BY <3>1, EmptyFunction DEF Others, Aggregator!Indicator
      <3>3. Holding(f) = {} /\ IsFiniteSet(DOMAIN cref)
        BY EmptyFunction, FS_EmptySet DEF Holding
      <3>4. Cardinality(Holding(f)) = 0
        BY <3>3, FS_EmptySet
      <3>5. Aggregator!FrameRefs(f) = Others(f) + Cardinality(Holding(f))
        BY <3>3, HoldersOf
      <3>. QED
        BY <3>2, <3>4, <3>5
    <2>6. AggUnseen
      BY DEF AggUnseen, Unseen
    <2>. QED
      BY <2>1, <2>2, <2>3, <2>4, <2>5, <2>6 DEF AggInv
  <1>2. AggInv /\ [Aggregator!Next]_(Aggregator!vars) => AggInv'
    <2> SUFFICES ASSUME AggInv, [Aggregator!Next]_(Aggregator!vars)
                 PROVE  AggInv'
      OBVIOUS
    <2>1. CASE Aggregator!Next
      BY <2>1, AggStep
    <2>2. CASE UNCHANGED Aggregator!vars
      <3> USE <2>2 DEF Aggregator!vars, Aggregator!camera, Aggregator!worker, Aggregator!user,
                       Aggregator!flags
      <3>1. AggTypes' /\ AggControl' /\ AggQueue' /\ AggUnseen'
        BY DEF AggInv, AggTypes, AggControl, HasSet, AggQueue, AggUnseen, Unseen
      <3>2. AggComposites'
        BY DEF AggInv, AggComposites, Aggregator!CompositeRefs
      <3>3. AggFrames'
        BY DEF AggInv, AggFrames, Aggregator!FrameRefs
      <3>. QED
        BY <3>1, <3>2, <3>3 DEF AggInv
    <2>. QED
      BY <2>1, <2>2
  <1>. QED
    BY <1>1, <1>2, PTL DEF Aggregator!Spec

\* Every frame and every composite counts exactly the holders that refer to it, for any
\* number of streams, packs and composites and any capacity (frame_aggregator.cc:99-120,
\* synthetic_stream.cc:42-70, frame_data.cc:227-238).
THEOREM ReferencesBalance == Aggregator!Spec => []RefsBalanced
  <1>1. AggInv => RefsBalanced
    BY DEF AggInv, AggFrames, AggComposites, AggControl, RefsBalanced, Aggregator!RefsBalanced
  <1>. QED
    BY <1>1, AggInvariant, PTL

\* No count of references goes below zero, the queue stays within kFrameNum2Aggregate and
\* last_set_ keeps each frame under its own stream (frame_aggregator.cc:86-125).
THEOREM AggregatorTypeCorrect == Aggregator!Spec => []Aggregator!TypeOK
  <1>1. AggInv => Aggregator!TypeOK
    <2> SUFFICES ASSUME AggInv
                 PROVE  Aggregator!TypeOK
      OBVIOUS
    <2>1. ref \in [Aggregator!Frame -> Nat]
      <3>1. ASSUME NEW f \in Aggregator!Frame
            PROVE  ref[f] \in Nat
        <4>1. ref[f] = Others(f) + Cardinality(Holding(f)) /\ Others(f) \in Nat
              /\ Cardinality(Holding(f)) \in Nat
          BY HoldersOf DEF AggInv, AggFrames, AggComposites
        <4>. QED
          BY <4>1
      <3>. QED
        BY <3>1 DEF AggInv, AggTypes
    <2>2. queue \in Seq(Aggregator!Composite)
      <3>1. queue \in Seq(DOMAIN cref) /\ DOMAIN cref \subseteq Aggregator!Composite
        BY DEF AggInv, AggComposites
      <3>2. \A i \in 1 .. Len(queue) : queue[i] \in Aggregator!Composite
        BY <3>1, ElementOfSeq
      <3>. QED
        BY <3>1, <3>2, LenProperties, SeqDef
    <2>3. next \in Nat \X Aggregator!Stream
      BY DEF AggInv, AggTypes
    <2>4. \A c \in DOMAIN cref : cref[c] \in Nat \ {0}
      BY DEF AggInv, AggComposites
    <2>. QED
      BY <2>1, <2>2, <2>3, <2>4
      DEF AggInv, AggTypes, AggQueue, AggComposites, Aggregator!TypeOK
  <1>. QED
    BY <1>1, AggInvariant, PTL

\* The rounds of stream u that the camera sent, and those up to the frame b of round a + 1.
SentRounds(u) == IF u < next[2] THEN next[1] ELSE next[1] - 1
RoundsTo(a, b, u) == IF u <= b THEN a + 1 ELSE a

\* last_set_ as far as it is not in a composite already, and the frame that is to come in.
Waiting == IF wpc \in {"size", "enqueue", "pop_front", "clear"} THEN <<>> ELSE last_set
InHand(u) == Unseen /\ Aggregator!Uid(worker_frame) = u
Coming(b) == IF b THEN 1 ELSE 0

\* The set that is collected was begun after the frame of stream b of round a + 1 (of
\* stream N of round a, for b = 0), when l frames and composites had been lost; sets begin
\* in the middle of a round only after a loss.
BegunAfter(b, l) == (b # 0 => l >= 1) /\ l <= lost

\* A stream without a frame has lost all it sent since; the frames there are came since.
StreamFits(a, b, l, u) ==
    /\ RoundsTo(a, b, u) <= SentRounds(u)
    /\ u \notin DOMAIN Waiting =>
          SentRounds(u) - RoundsTo(a, b, u) <= lost - l + Coming(InHand(u))
    /\ u \in DOMAIN Waiting =>
          /\ RoundsTo(a, b, u) < Aggregator!Round(Waiting[u])
          /\ Aggregator!Round(Waiting[u]) <= SentRounds(u)

\* The frame of stream u that is to come in is younger than the set, and not too young for
\* a set that is full.
HandFits(a, b, u) ==
    /\ RoundsTo(a, b, u) < Aggregator!Round(worker_frame)
    /\ Aggregator!Round(worker_frame) <= SentRounds(u)
    /\ \A s \in DOMAIN Waiting :
          Aggregator!Round(Waiting[s]) <= RoundsTo(Aggregator!Round(worker_frame) - 1, u - 1, s)
    /\ u = NStreams => lost >= 1 \/ next[2] = 1
    /\ DOMAIN Waiting = Aggregator!Stream => Aggregator!Round(worker_frame) - (a + 1) <= lost

\* The losses account for the age of a full set.
FullFits(a) ==
    DOMAIN Waiting = Aggregator!Stream =>
        lost >= 1 /\ next[1] - (a + 1) <= lost + Coming(\E u \in Aggregator!Stream : InHand(u))

Begun(a, b, l) ==
    /\ BegunAfter(b, l) /\ FullFits(a)
    /\ \A u \in Aggregator!Stream : StreamFits(a, b, l, u) /\ (InHand(u) => HandFits(a, b, u))

\* While handleFrame may still make a composite.
Collecting == ~output_callback /\ (accepting \/ wpc = "handle")
SkewOf(c) ==
    \A s, t \in Aggregator!Stream : Aggregator!Round(c[s]) - Aggregator!Round(c[t]) <= lost
AggSkew ==
    /\ \A c \in DOMAIN cref : SkewOf(c)
    /\ Collecting => \E a \in Nat, b \in 0 .. NStreams - 1, l \in Nat : Begun(a, b, l)

\* The values that the arithmetic of AggSkew is about.
LEMMA SkewTypes ==
    ASSUME AggTypes
    PROVE  /\ DOMAIN Waiting \subseteq Aggregator!Stream
           /\ \A s \in DOMAIN Waiting : Aggregator!Round(Waiting[s]) \in Nat \ {0}
           /\ \A u \in Aggregator!Stream : SentRounds(u) \in Nat /\ u \in Nat \ {0} /\ u <= NStreams
           /\ \A a \in Nat, b \in Nat, u \in Aggregator!Stream : RoundsTo(a, b, u) \in {a, a + 1}
           /\ \A p \in BOOLEAN : Coming(p) \in {0, 1} /\ (p => Coming(p) = 1) /\ (~p => Coming(p) = 0)
           /\ lost \in Nat /\ next[1] \in Nat \ {0} /\ next[2] \in 1 .. NStreams
           /\ NStreams \in Nat \ {0} /\ Aggregator!Stream = 1 .. NStreams
  <1>1. /\ lost \in Nat /\ next[1] \in Nat \ {0} /\ next[2] \in 1 .. NStreams
        /\ NStreams \in Nat \ {0} /\ Aggregator!Stream = 1 .. NStreams
    BY AggConstants, FollowingType DEF AggTypes, Aggregator!Stream
  <1>2. DOMAIN Waiting \subseteq Aggregator!Stream /\ \A s \in DOMAIN Waiting : Waiting[s] \in Aggregator!Frame
    BY EmptyFunction DEF AggTypes, Waiting
  <1>3. \A s \in DOMAIN Waiting : Aggregator!Round(Waiting[s]) \in Nat \ {0}
    BY <1>2, FrameParts
  <1>4. \A u \in Aggregator!Stream : SentRounds(u) \in Nat /\ u \in Nat \ {0} /\ u <= NStreams
    BY <1>1 DEF SentRounds
  <1>5. \A a \in Nat, b \in Nat, u \in Aggregator!Stream : RoundsTo(a, b, u) \in {a, a + 1}
    BY <1>1 DEF RoundsTo
  <1>6. \A p \in BOOLEAN : Coming(p) \in {0, 1} /\ (p => Coming(p) = 1) /\ (~p => Coming(p) = 0)
    BY DEF Coming
  <1>. QED
    BY <1>1, <1>2, <1>3, <1>4, <1>5, <1>6

\* The next frame of the camera is one more of its stream.
LEMMA SentNext ==
    ASSUME AggTypes, next' = Aggregator!Following
    PROVE  /\ \A u \in Aggregator!Stream :
                /\ SentRounds(u)' = SentRounds(u) + Coming(u = next[2])
                /\ SentRounds(u) = RoundsTo(next[1] - 1, next[2] - 1, u)
           /\ next'[1] \in Nat /\ next'[1] <= next[1] + 1
           /\ (next[2] = NStreams => next'[2] = 1)
  <1>1. next[1] \in Nat \ {0} /\ next[2] \in 1 .. NStreams /\ NStreams \in Nat /\ Aggregator!Stream = 1 .. NStreams
    BY SkewTypes
  <1>2. CASE next[2] = NStreams
    <2>1. next'[1] = next[1] + 1 /\ next'[2] = 1
      BY <1>2 DEF Aggregator!Following
    <2>. QED
      BY <1>1, <1>2, <2>1 DEF SentRounds, RoundsTo, Coming
  <1>3. CASE next[2] # NStreams
    <2>1. next'[1] = next[1] /\ next'[2] = next[2] + 1
      BY <1>3 DEF Aggregator!Following
    <2>. QED
      BY <1>1, <1>3, <2>1 DEF SentRounds, RoundsTo, Coming
  <1>. QED
    BY <1>2, <1>3

\* What does not concern the set that is collected.
LEMMA SkewSame ==
    ASSUME AggSkew, DOMAIN cref' \subseteq DOMAIN cref, lost' = lost, next' = next,
           Collecting' =>
               /\ Collecting /\ Waiting' = Waiting
               /\ \A u \in Aggregator!Stream : InHand(u)' <=> InHand(u)
               /\ \A u \in Aggregator!Stream : InHand(u) => worker_frame' = worker_frame
    PROVE  AggSkew'
  <1>1. \A c \in DOMAIN cref' : SkewOf(c)'
    BY DEF AggSkew, SkewOf
  <1>2. ASSUME Collecting'
        PROVE  (\E a \in Nat, b \in 0 .. NStreams - 1, l \in Nat : Begun(a, b, l))'
    <2>1. /\ Collecting /\ Waiting' = Waiting
          /\ \A u \in Aggregator!Stream : InHand(u)' <=> InHand(u)
          /\ \A u \in Aggregator!Stream : InHand(u) => worker_frame' = worker_frame
      BY <1>2
    <2>2. PICK a \in Nat, b \in 0 .. NStreams - 1, l \in Nat : Begun(a, b, l)
      BY <2>1 DEF AggSkew
    <2>3. BegunAfter(b, l)'
      BY <2>2 DEF Begun, BegunAfter
    <2>4. FullFits(a)'
      <3>1. Coming(\E u \in Aggregator!Stream : InHand(u))' = Coming(\E u \in Aggregator!Stream : InHand(u))
        BY <2>1 DEF Coming
      <3>. QED
        BY <2>1, <2>2, <3>1 DEF Begun, FullFits
    <2>5. ASSUME NEW u \in Aggregator!Stream
          PROVE  StreamFits(a, b, l, u)' /\ (InHand(u)' => HandFits(a, b, u)')
      <3>1. Coming(InHand(u))' = Coming(InHand(u)) /\ SentRounds(u)' = SentRounds(u)
        BY <2>1 DEF Coming, SentRounds
      <3>2. StreamFits(a, b, l, u)'
        BY <2>1, <2>2, <3>1 DEF Begun, StreamFits, RoundsTo
      <3>3. InHand(u)' => HandFits(a, b, u)'
        BY <2>1, <2>2, <3>1 DEF Begun, HandFits, RoundsTo
      <3>. QED
        BY <3>2, <3>3
    <2>6. Begun(a, b, l)'
      BY <2>3, <2>4, <2>5 DEF Begun
    <2>. QED
      BY <2>6
  <1>. QED
    BY <1>1, <1>2 DEF AggSkew

LEMMA SkewLose ==
    ASSUME AggInv, AggSkew, Aggregator!Lose
    PROVE  AggSkew'
  <1> USE DEF AggInv
  <1>1. /\ lost' = lost + 1 /\ next' = Aggregator!Following /\ Waiting' = Waiting /\ cref' = cref
        /\ worker_frame' = worker_frame /\ (Collecting' <=> Collecting)
        /\ \A u : InHand(u)' <=> InHand(u)
    BY DEF Aggregator!Lose, Aggregator!worker, Aggregator!flags, Waiting, InHand, Unseen, Collecting
  <1>2. ASSUME NEW c \in DOMAIN cref'
        PROVE  SkewOf(c)'
    <2>1. c \in [Aggregator!Stream -> Aggregator!Frame] /\ SkewOf(c) /\ lost \in Nat
      BY <1>1 DEF AggSkew, AggComposites, AggTypes, Aggregator!Composite
    <2> SUFFICES ASSUME NEW s \in Aggregator!Stream, NEW t \in Aggregator!Stream
                 PROVE  Aggregator!Round(c[s]) - Aggregator!Round(c[t]) <= lost'
      BY DEF SkewOf
    <2>2. Aggregator!Round(c[s]) \in Nat /\ Aggregator!Round(c[t]) \in Nat
      BY <2>1, FrameParts
    <2>. QED
      BY <1>1, <2>1, <2>2 DEF SkewOf
  <1>3. ASSUME Collecting'
        PROVE  (\E a \in Nat, b \in 0 .. NStreams - 1, l \in Nat : Begun(a, b, l))'
    <2>2. PICK a \in Nat, b \in 0 .. NStreams - 1, l \in Nat : Begun(a, b, l)
      BY <1>1, <1>3 DEF AggSkew
    <2>t. /\ lost \in Nat /\ next[1] \in Nat /\ next'[1] \in Nat /\ next'[1] <= next[1] + 1 /\ b \in Nat
          /\ Coming(\E u \in Aggregator!Stream : InHand(u)) \in {0, 1}
      BY SkewTypes, SentNext, <1>1 DEF Coming
    <2>3. BegunAfter(b, l)'
      BY <1>1, <2>2, <2>t DEF Begun, BegunAfter
    <2>4. FullFits(a)'
      <3>1. Coming(\E u \in Aggregator!Stream : InHand(u))' = Coming(\E u \in Aggregator!Stream : InHand(u))
        BY <1>1 DEF Coming
      <3>2. DOMAIN Waiting = Aggregator!Stream =>
              lost >= 1 /\ next[1] - (a + 1) <= lost + Coming(\E u \in Aggregator!Stream : InHand(u))
        BY <2>2 DEF Begun, FullFits
      <3>3. PICK h \in {0, 1} : h = Coming(\E u \in Aggregator!Stream : InHand(u))
        BY <2>t
      <3>4. DOMAIN Waiting = Aggregator!Stream => lost >= 1 /\ next[1] - (a + 1) <= lost + h
        BY <3>2, <3>3
      <3>5. DOMAIN Waiting = Aggregator!Stream => lost' >= 1 /\ next'[1] - (a + 1) <= lost' + h
        BY <1>1, <2>t, <3>4
      <3>. QED
        BY <1>1, <3>1, <3>3, <3>5 DEF FullFits
    <2>5. ASSUME NEW u \in Aggregator!Stream
          PROVE  StreamFits(a, b, l, u)' /\ (InHand(u)' => HandFits(a, b, u)')
      <3>1. Coming(InHand(u))' = Coming(InHand(u)) /\ Coming(InHand(u)) \in {0, 1}
        BY <1>1 DEF Coming
      <3>2. SentRounds(u)' = SentRounds(u) + Coming(u = next[2]) /\ Coming(u = next[2]) \in {0, 1}
            /\ SentRounds(u) \in Nat /\ RoundsTo(a, b, u) \in Nat
        <4>1. Coming(u = next[2]) \in {0, 1}
          BY DEF Coming
        <4>2. SentRounds(u)' = SentRounds(u) + Coming(u = next[2])
          BY <1>1, SentNext
        <4>3. SentRounds(u) \in Nat /\ RoundsTo(a, b, u) \in {a, a + 1}
          BY <2>t, SkewTypes
        <4>. QED
          BY <4>1, <4>2, <4>3
      <3>3. RoundsTo(a, b, u)' = RoundsTo(a, b, u)
        BY DEF RoundsTo
      <3>4. \A s \in DOMAIN Waiting : Aggregator!Round(Waiting[s]) \in Nat
        BY SkewTypes
      <3>5. StreamFits(a, b, l, u)'
        <4>1. StreamFits(a, b, l, u)
          BY <2>2 DEF Begun
        <4>2. RoundsTo(a, b, u) <= SentRounds(u)'
          BY <3>2, <4>1 DEF StreamFits
        <4>3. u \notin DOMAIN Waiting => SentRounds(u)' - RoundsTo(a, b, u) <= lost' - l + Coming(InHand(u))
          BY <1>1, <2>t, <3>1, <3>2, <4>1 DEF StreamFits
        <4>4. u \in DOMAIN Waiting => /\ RoundsTo(a, b, u) < Aggregator!Round(Waiting[u])
                                      /\ Aggregator!Round(Waiting[u]) <= SentRounds(u)'
          BY <3>2, <3>4, <4>1 DEF StreamFits
        <4>. QED
          BY <1>1, <3>1, <3>3, <4>2, <4>3, <4>4 DEF StreamFits
      <3>6. InHand(u)' => HandFits(a, b, u)'
        <4> SUFFICES ASSUME InHand(u)
                     PROVE  HandFits(a, b, u)'
          BY <1>1
        <4>1. HandFits(a, b, u)
          BY <2>2 DEF Begun
        <4>2. Aggregator!Round(worker_frame) \in Nat
          BY FrameParts DEF InHand, Unseen, AggControl, AggTypes
        <4>3. Aggregator!Round(worker_frame) <= SentRounds(u)' /\ lost' >= 1
          BY <1>1, <2>t, <3>2, <4>1, <4>2 DEF HandFits
        <4>4. DOMAIN Waiting = Aggregator!Stream => Aggregator!Round(worker_frame) - (a + 1) <= lost'
          BY <1>1, <2>t, <4>1, <4>2 DEF HandFits
        <4>. QED
          BY <1>1, <4>1, <4>3, <4>4 DEF HandFits, RoundsTo
      <3>. QED
        BY <3>5, <3>6
    <2>6. Begun(a, b, l)'
      BY <2>3, <2>4, <2>5 DEF Begun
    <2>. QED
      BY <2>6
  <1>. QED
    BY <1>2, <1>3 DEF AggSkew

LEMMA SkewArrive ==
    ASSUME AggInv, AggSkew, NEW f \in Aggregator!Frame, Aggregator!Arrive(f)
    PROVE  AggSkew'
  <1> USE DEF AggInv
  <1>1. /\ wpc = "idle" /\ lost' = lost /\ Waiting' = Waiting /\ cref' = cref /\ worker_frame' = f
        /\ (Collecting' => Collecting /\ wpc' = "callback")
        /\ \A u : ~InHand(u)
    BY DEF Aggregator!Arrive, Aggregator!flags, Waiting, InHand, Unseen, Collecting
  <1>2. \A u : InHand(u)' <=> wpc' = "callback" /\ Aggregator!Uid(f) = u
    BY <1>1 DEF InHand, Unseen, Aggregator!Arrive
  <1>3. CASE Aggregator!Uid(f) = Aggregator!Other
    <2>1. next' = next /\ \A u \in Aggregator!Stream : u # Aggregator!Uid(f)
      BY <1>3, SkewTypes DEF Aggregator!Arrive, Aggregator!Other
    <2>. QED
      BY <1>1, <1>2, <2>1, SkewSame
  <1>4. CASE Aggregator!Uid(f) # Aggregator!Other
    <2>1. /\ next' = Aggregator!Following /\ Aggregator!Uid(f) = next[2] /\ Aggregator!Round(f) = next[1]
      BY <1>4 DEF Aggregator!Arrive, Aggregator!Uid, Aggregator!Round
    <2>2. \A c \in DOMAIN cref' : SkewOf(c)'
      BY <1>1 DEF AggSkew, SkewOf
    <2>3. ASSUME Collecting'
          PROVE  (\E a \in Nat, b \in 0 .. NStreams - 1, l \in Nat : Begun(a, b, l))'
      <3>1. wpc' = "callback" /\ \A u : InHand(u)' <=> u = next[2]
        BY <1>1, <1>2, <2>1, <2>3
      <3>2. PICK a \in Nat, b \in 0 .. NStreams - 1, l \in Nat : Begun(a, b, l)
        BY <1>1, <2>3 DEF AggSkew
      <3>t. /\ lost \in Nat /\ next[1] \in Nat \ {0} /\ next'[1] \in Nat /\ next'[1] <= next[1] + 1
            /\ b \in Nat /\ next[2] \in Aggregator!Stream
        BY SkewTypes, SentNext, <2>1
      <3>3. BegunAfter(b, l)'
        BY <1>1, <3>2 DEF Begun, BegunAfter
      <3>4. FullFits(a)'
        <4>1. Coming(\E u \in Aggregator!Stream : InHand(u))' = 1
          BY <3>1, <3>t DEF Coming
        <4>2. Coming(\E u \in Aggregator!Stream : InHand(u)) = 0
          BY <1>1 DEF Coming
        <4>3. DOMAIN Waiting = Aggregator!Stream => lost >= 1 /\ next[1] - (a + 1) <= lost + 0
          BY <3>2, <4>2 DEF Begun, FullFits
        <4>4. DOMAIN Waiting = Aggregator!Stream => lost >= 1 /\ next'[1] - (a + 1) <= lost + 1
          BY <3>t, <4>3
        <4>. QED
          BY <1>1, <4>1, <4>4 DEF FullFits
      <3>5. ASSUME NEW u \in Aggregator!Stream
            PROVE  StreamFits(a, b, l, u)' /\ (InHand(u)' => HandFits(a, b, u)')
        <4>1. Coming(InHand(u))' = Coming(u = next[2]) /\ Coming(InHand(u)) = 0
          BY <1>1, <3>1 DEF Coming
        <4>2. SentRounds(u)' = SentRounds(u) + Coming(u = next[2]) /\ Coming(u = next[2]) \in {0, 1}
              /\ SentRounds(u) \in Nat /\ RoundsTo(a, b, u) \in Nat
          <5>1. Coming(u = next[2]) \in {0, 1}
            BY DEF Coming
          <5>2. SentRounds(u)' = SentRounds(u) + Coming(u = next[2])
            BY <2>1, SentNext
          <5>3. SentRounds(u) \in Nat /\ RoundsTo(a, b, u) \in {a, a + 1}
            BY <3>t, SkewTypes
          <5>. QED
            BY <5>1, <5>2, <5>3
        <4>3. RoundsTo(a, b, u)' = RoundsTo(a, b, u)
          BY DEF RoundsTo
        <4>4. \A s \in DOMAIN Waiting : Aggregator!Round(Waiting[s]) \in Nat
          BY SkewTypes
        <4>5. StreamFits(a, b, l, u)
          BY <3>2 DEF Begun
        <4>6. StreamFits(a, b, l, u)'
          <5>2. RoundsTo(a, b, u) <= SentRounds(u)'
            BY <4>2, <4>5 DEF StreamFits
          <5>3. u \notin DOMAIN Waiting => SentRounds(u)' - RoundsTo(a, b, u) <= lost - l + Coming(u = next[2])
            BY <3>t, <4>1, <4>2, <4>5 DEF StreamFits
          <5>4. u \in DOMAIN Waiting => /\ RoundsTo(a, b, u) < Aggregator!Round(Waiting[u])
                                        /\ Aggregator!Round(Waiting[u]) <= SentRounds(u)'
            BY <4>2, <4>4, <4>5 DEF StreamFits
          <5>. QED
            BY <1>1, <4>1, <4>3, <5>2, <5>3, <5>4 DEF StreamFits
        <4>7. InHand(u)' => HandFits(a, b, u)'
          <5> SUFFICES ASSUME u = next[2]
                       PROVE  HandFits(a, b, u)'
            BY <3>1
          <5>1. SentRounds(u) = next[1] - 1
            <6>1. ~(u < next[2])
              BY SkewTypes
            <6>. QED
              BY <6>1 DEF SentRounds
          <5>2. SentRounds(u)' = next[1]
            BY <3>t, <4>2, <5>1 DEF Coming
          <5>3. RoundsTo(a, b, u) < next[1]
            BY <3>t, <4>2, <4>5, <5>1 DEF StreamFits
          <5>4. ASSUME NEW s \in DOMAIN Waiting
                PROVE  Aggregator!Round(Waiting[s]) <= RoundsTo(next[1] - 1, u - 1, s)
            <6>1. s \in Aggregator!Stream
              BY SkewTypes
            <6>2. StreamFits(a, b, l, s) /\ SentRounds(s) = RoundsTo(next[1] - 1, next[2] - 1, s)
              BY <2>1, <3>2, <6>1, SentNext DEF Begun
            <6>. QED
              BY <6>2 DEF StreamFits
          <5>5. u = NStreams => next'[2] = 1
            BY <2>1, SentNext
          <5>6. DOMAIN Waiting = Aggregator!Stream => next[1] - (a + 1) <= lost
            <6>1. Coming(\E v \in Aggregator!Stream : InHand(v)) = 0
              BY <1>1 DEF Coming
            <6>2. DOMAIN Waiting = Aggregator!Stream => next[1] - (a + 1) <= lost + 0
              BY <3>2, <6>1 DEF Begun, FullFits
            <6>. QED
              BY <3>t, <6>2
          <5>. QED
            BY <1>1, <2>1, <5>2, <5>3, <5>4, <5>5, <5>6, <3>t DEF HandFits, RoundsTo
        <4>. QED
          BY <4>6, <4>7
      <3>6. Begun(a, b, l)'
        BY <3>3, <3>4, <3>5 DEF Begun
      <3>. QED
        BY <3>6
    <2>. QED
      BY <2>2, <2>3 DEF AggSkew
  <1>. QED
    BY <1>3, <1>4

\* The three ends of handleFrame: a composite of the set, a set that stays, full or not.
LEMMA SkewHandle ==
    ASSUME AggInv, AggSkew, Aggregator!HandleFrame
    PROVE  AggSkew'
  <1> USE DEF AggInv
  <1> DEFINE W == Aggregator!WithFrame
             k == Aggregator!Uid(worker_frame)
             r == Aggregator!Round(worker_frame)
             full == DOMAIN W = Aggregator!Stream
             got_one == full /\ Aggregator!Cardinality(DOMAIN cref) < MaxSets
  <1>1. /\ last_set' = W /\ wpc' = (IF got_one THEN "size" ELSE "release")
        /\ cref' = (IF got_one THEN Aggregator!Composed(W) ELSE cref)
        /\ lost' = lost + Aggregator!Indicator(full /\ ~got_one) /\ next' = next
        /\ wpc = "handle"
    BY DEF Aggregator!HandleFrame
  <1>2. /\ worker_frame \in Aggregator!Frame /\ k \in Aggregator!Stream /\ Waiting = last_set
        /\ \A u : InHand(u) <=> u = k
        /\ \A u : ~InHand(u)'
        /\ Collecting
    BY <1>1 DEF AggTypes, AggControl, Waiting, InHand, Unseen, Collecting
  <1>3. /\ DOMAIN W = DOMAIN last_set \cup {k} /\ W[k] = worker_frame
        /\ \A s \in DOMAIN last_set : s # k => W[s] = last_set[s]
    BY DEF Aggregator!WithFrame
  <1> HIDE DEF W, k
  <1>4. PICK a \in Nat, b \in 0 .. NStreams - 1, l \in Nat : Begun(a, b, l)
    BY <1>2 DEF AggSkew
  <1>t. /\ lost \in Nat /\ next[1] \in Nat \ {0} /\ next[2] \in 1 .. NStreams /\ b \in Nat
        /\ NStreams \in Nat \ {0} /\ Aggregator!Stream = 1 .. NStreams /\ r \in Nat \ {0} /\ k \in Nat
    BY <1>2, SkewTypes, FrameParts
  <1>u. /\ DOMAIN Waiting \subseteq Aggregator!Stream
        /\ \A s \in DOMAIN Waiting : Aggregator!Round(Waiting[s]) \in Nat \ {0}
        /\ \A u \in Aggregator!Stream : SentRounds(u) \in Nat
        /\ \A u \in Aggregator!Stream : RoundsTo(a, b, u) \in {a, a + 1}
    BY <1>t, SkewTypes
  <1>5. \A u \in Aggregator!Stream : StreamFits(a, b, l, u)
    BY <1>4 DEF Begun
  <1>6. HandFits(a, b, k) /\ BegunAfter(b, l) /\ FullFits(a)
    BY <1>2, <1>4 DEF Begun
  <1>7. Coming(InHand(k)) = 1 /\ Coming(\E u \in Aggregator!Stream : InHand(u)) = 1
    BY <1>2 DEF Coming
  <1>8. ASSUME k \notin DOMAIN Waiting
        PROVE  SentRounds(k) - (a + 1) <= lost /\ (b = 0 => SentRounds(k) - (a + 1) <= lost - l)
    <2>1. SentRounds(k) - RoundsTo(a, b, k) <= lost - l + 1
      BY <1>2, <1>5, <1>7, <1>8 DEF StreamFits
    <2>2. RoundsTo(a, b, k) = a \/ (RoundsTo(a, b, k) = a + 1 /\ b # 0)
      BY <1>t, <1>2 DEF RoundsTo
    <2>3. SentRounds(k) \in Nat /\ (b # 0 => l >= 1) /\ l <= lost
      BY <1>2, <1>6, <1>u DEF BegunAfter
    <2>. QED
      BY <1>t, <2>1, <2>2, <2>3
  <1>9. r <= SentRounds(k) /\ RoundsTo(a, b, k) < r /\ SentRounds(k) \in Nat
    BY <1>2, <1>6, <1>u DEF HandFits
  \* The frames of W are of the rounds a + 1 to r, and these are not too far apart.
  <1>10. full => r - (a + 1) <= lost
    <2>1. CASE k \in DOMAIN Waiting
      BY <1>2, <1>3, <1>6, <2>1 DEF HandFits
    <2>2. CASE k \notin DOMAIN Waiting
      BY <1>8, <1>9, <1>t, <2>2
    <2>. QED
      BY <2>1, <2>2
  <1>11. ASSUME NEW s \in DOMAIN W
         PROVE  /\ Aggregator!Round(W[s]) \in Nat /\ s \in Aggregator!Stream
                /\ RoundsTo(a, b, s) < Aggregator!Round(W[s]) /\ Aggregator!Round(W[s]) <= SentRounds(s)
                /\ a + 1 <= Aggregator!Round(W[s]) /\ Aggregator!Round(W[s]) <= r
    <2>1. CASE s = k
      <3>1. RoundsTo(a, b, k) \in {a, a + 1}
        BY <1>2, <1>u
      <3>. QED
        BY <1>2, <1>3, <1>9, <1>t, <2>1, <3>1
    <2>2. CASE s # k
      <3>1. s \in DOMAIN Waiting /\ W[s] = Waiting[s] /\ s \in Aggregator!Stream
        BY <1>2, <1>3, <1>u, <2>2
      <3>2. RoundsTo(a, b, s) < Aggregator!Round(W[s]) /\ Aggregator!Round(W[s]) <= SentRounds(s)
        BY <1>5, <3>1 DEF StreamFits
      <3>3. RoundsTo(r - 1, k - 1, s) \in {r - 1, r - 1 + 1}
        BY DEF RoundsTo
      <3>4. Aggregator!Round(W[s]) <= RoundsTo(r - 1, k - 1, s)
        BY <1>6, <3>1 DEF HandFits
      <3>5. RoundsTo(a, b, s) \in {a, a + 1} /\ Aggregator!Round(W[s]) \in Nat
        BY <1>u, <3>1
      <3>. QED
        BY <1>t, <3>1, <3>2, <3>3, <3>4, <3>5
    <2>. QED
      BY <2>1, <2>2
  \* Without a loss the frame that completes the set is the last of its round.
  <1>12. full => lost >= 1 \/ next[2] = 1
    <2> SUFFICES ASSUME full, lost = 0
                 PROVE  next[2] = 1
      BY <1>t
    <2>1. k \notin DOMAIN Waiting
      <3>1. k \in DOMAIN Waiting => DOMAIN Waiting = Aggregator!Stream
        BY <1>2, <1>3
      <3>2. DOMAIN Waiting # Aggregator!Stream
        BY <1>6 DEF FullFits
      <3>. QED
        BY <3>1, <3>2
    <2>2. l = 0 /\ b = 0
      BY <1>6, <1>t DEF BegunAfter
    <2>3. SentRounds(k) - (a + 1) <= 0
      BY <1>8, <2>1, <2>2
    <2>4. r <= a + 1
      BY <1>9, <1>t, <2>3
    <2>5. ASSUME k # NStreams
          PROVE  FALSE
      <3>1. NStreams \in DOMAIN Waiting
        <4>1. NStreams \in Aggregator!Stream
          BY <1>t
        <4>. QED
          BY <1>2, <1>3, <2>5, <4>1
      <3>2. Aggregator!Round(Waiting[NStreams]) <= RoundsTo(r - 1, k - 1, NStreams)
        BY <1>6, <3>1 DEF HandFits
      <3>3. ~(NStreams <= k - 1)
        BY <1>2, <1>t
      <3>4. RoundsTo(r - 1, k - 1, NStreams) = r - 1
        BY <3>3 DEF RoundsTo
      <3>5. RoundsTo(a, b, NStreams) < Aggregator!Round(Waiting[NStreams]) /\ RoundsTo(a, b, NStreams) \in {a, a + 1}
        BY <1>5, <1>t, <1>u, <3>1 DEF StreamFits
      <3>6. Aggregator!Round(Waiting[NStreams]) \in Nat
        BY <1>u, <3>1
      <3>. QED
        BY <1>t, <2>4, <3>2, <3>4, <3>5, <3>6
    <2>. QED
      BY <1>6, <2>5 DEF HandFits
  <1>13. CASE got_one
    <2>1. lost' = lost /\ cref' = Aggregator!Composed(W) /\ Waiting' = <<>>
      BY <1>1, <1>13, <1>t DEF Waiting, Aggregator!Indicator
    <2>2. SkewOf(W)
      <3> SUFFICES ASSUME NEW s \in Aggregator!Stream, NEW t \in Aggregator!Stream
                   PROVE  Aggregator!Round(W[s]) - Aggregator!Round(W[t]) <= lost
        BY DEF SkewOf
      <3>1. s \in DOMAIN W /\ t \in DOMAIN W
        BY <1>13
      <3>2. Aggregator!Round(W[s]) \in Nat /\ Aggregator!Round(W[s]) <= r
        BY <1>11, <3>1
      <3>3. Aggregator!Round(W[t]) \in Nat /\ a + 1 <= Aggregator!Round(W[t])
        BY <1>11, <3>1
      <3>. QED
        BY <1>10, <1>13, <1>t, <3>2, <3>3
    <2>3. ASSUME NEW c \in DOMAIN cref'
          PROVE  SkewOf(c)'
      <3>1. c \in DOMAIN cref \/ c = W
        BY <2>1 DEF Aggregator!Composed
      <3>2. SkewOf(c)
        BY <2>2, <3>1 DEF AggSkew
      <3>. QED
        BY <2>1, <3>2 DEF SkewOf
    <2> DEFINE p == next[1] - 1
               q == next[2] - 1
    <2>4. p \in Nat /\ q \in 0 .. NStreams - 1
      BY <1>t
    <2>5. ASSUME NEW u \in Aggregator!Stream
          PROVE  RoundsTo(p, q, u) = SentRounds(u) /\ SentRounds(u)' = SentRounds(u)
      BY <1>1, <1>t DEF RoundsTo, SentRounds
    <2>6. BegunAfter(q, lost)'
      <3>1. q # 0 => lost >= 1
        BY <1>12, <1>13, <1>t
      <3>2. q' = q /\ lost' = lost /\ lost <= lost
        BY <1>1, <1>t, <2>1
      <3> HIDE DEF q
      <3>. QED
        BY <3>1, <3>2 DEF BegunAfter
    <2>e. DOMAIN Waiting' = {} /\ 1 \in Aggregator!Stream
      BY <1>t, <2>1, EmptyFunction
    <2>7. FullFits(p)'
      BY <2>e DEF FullFits
    <2> HIDE DEF p, q
    <2>8. ASSUME NEW u \in Aggregator!Stream
          PROVE  StreamFits(p, q, lost, u)' /\ (InHand(u)' => HandFits(p, q, u)')
      <3>1. Coming(InHand(u))' = 0
        BY <1>2 DEF Coming
      <3>2. RoundsTo(p, q, u)' = SentRounds(u) /\ SentRounds(u)' = SentRounds(u) /\ SentRounds(u) \in Nat
        BY <1>1, <1>u, <2>5 DEF RoundsTo, p, q
      <3>3. SentRounds(u)' - RoundsTo(p, q, u)' <= lost' - lost' + 0 /\ RoundsTo(p, q, u)' <= SentRounds(u)'
        BY <1>t, <2>1, <3>2
      <3>4. StreamFits(p, q, lost, u)'
        BY <2>e, <3>1, <3>3 DEF StreamFits
      <3>. QED
        BY <1>2, <3>4
    <2>9. Begun(p, q, lost)'
      BY <2>6, <2>7, <2>8 DEF Begun
    <2>10. p' = p /\ q' = q /\ lost' \in Nat
      BY <1>1, <1>t, <2>1 DEF p, q
    <2>11. (\E x \in Nat, y \in 0 .. NStreams - 1, z \in Nat : Begun(x, y, z))'
      BY <2>4, <2>9, <2>10
    <2>. QED
      BY <2>3, <2>11 DEF AggSkew
  <1>14. CASE ~got_one
    <2>1. cref' = cref /\ Waiting' = W /\ lost' = lost + Coming(full)
      BY <1>1, <1>14 DEF Waiting, Aggregator!Indicator, Coming
    <2>2. Coming(full) \in {0, 1} /\ (full => Coming(full) = 1)
      BY DEF Coming
    <2>3. ASSUME NEW c \in DOMAIN cref'
          PROVE  SkewOf(c)'
      <3>1. c \in [Aggregator!Stream -> Aggregator!Frame] /\ SkewOf(c)
        BY <2>1 DEF AggSkew, AggComposites, Aggregator!Composite
      <3> SUFFICES ASSUME NEW s \in Aggregator!Stream, NEW t \in Aggregator!Stream
                   PROVE  Aggregator!Round(c[s]) - Aggregator!Round(c[t]) <= lost'
        BY DEF SkewOf
      <3>2. Aggregator!Round(c[s]) \in Nat /\ Aggregator!Round(c[t]) \in Nat
        BY <3>1, FrameParts
      <3>3. Aggregator!Round(c[s]) - Aggregator!Round(c[t]) <= lost
        BY <3>1 DEF SkewOf
      <3>. QED
        BY <1>t, <2>1, <2>2, <3>2, <3>3
    <2>4. BegunAfter(b, l)'
      <3>1. l <= lost /\ (b # 0 => l >= 1)
        BY <1>6 DEF BegunAfter
      <3>2. l <= lost'
        BY <1>t, <2>1, <2>2, <3>1
      <3>. QED
        BY <3>1, <3>2 DEF BegunAfter
    <2>5. FullFits(a)'
      <3>1. Coming(\E u \in Aggregator!Stream : InHand(u))' = 0
        BY <1>2 DEF Coming
      <3>2. ASSUME full
            PROVE  lost' >= 1 /\ next[1] - (a + 1) <= lost'
        <4>1. lost' = lost + 1
          BY <2>1, <2>2, <3>2
        <4>2. next[1] - (a + 1) <= lost + 1
          <5>1. CASE k \in DOMAIN Waiting
            <6>1. DOMAIN Waiting = Aggregator!Stream
              BY <1>2, <1>3, <3>2, <5>1
            <6>. QED
              BY <1>6, <1>7, <6>1 DEF FullFits
          <5>2. CASE k \notin DOMAIN Waiting
            <6>1. SentRounds(k) \in {next[1], next[1] - 1}
              BY DEF SentRounds
            <6>. QED
              BY <1>8, <1>t, <5>2, <6>1
          <5>. QED
            BY <5>1, <5>2
        <4>. QED
          BY <1>t, <4>1, <4>2
      <3>3. full => lost' >= 1 /\ next[1] - (a + 1) <= lost' + 0
        BY <1>t, <2>1, <2>2, <3>2
      <3>. QED
        BY <1>1, <2>1, <3>1, <3>3 DEF FullFits
    <2>6. ASSUME NEW u \in Aggregator!Stream
          PROVE  StreamFits(a, b, l, u)' /\ (InHand(u)' => HandFits(a, b, u)')
      <3>1. Coming(InHand(u))' = 0
        BY <1>2 DEF Coming
      <3>2. RoundsTo(a, b, u)' = RoundsTo(a, b, u) /\ SentRounds(u)' = SentRounds(u)
        BY <1>1 DEF RoundsTo, SentRounds
      <3>3. ASSUME u \notin DOMAIN W
            PROVE  SentRounds(u) - RoundsTo(a, b, u) <= lost' - l + 0
        <4>1. u \notin DOMAIN Waiting /\ ~InHand(u)
          BY <1>2, <1>3, <3>3
        <4>2. Coming(InHand(u)) = 0
          BY <4>1 DEF Coming
        <4>3. SentRounds(u) - RoundsTo(a, b, u) <= lost - l + 0
          BY <1>5, <4>1, <4>2 DEF StreamFits
        <4>4. SentRounds(u) \in Nat /\ RoundsTo(a, b, u) \in {a, a + 1}
          BY <1>u
        <4>. QED
          BY <1>t, <2>1, <2>2, <4>3, <4>4
      <3>4. u \in DOMAIN W => /\ RoundsTo(a, b, u) < Aggregator!Round(W[u])
                              /\ Aggregator!Round(W[u]) <= SentRounds(u)
        BY <1>11
      <3>5. RoundsTo(a, b, u) <= SentRounds(u)
        BY <1>5 DEF StreamFits
      <3>6. StreamFits(a, b, l, u)'
        BY <2>1, <3>1, <3>2, <3>3, <3>4, <3>5 DEF StreamFits
      <3>. QED
        BY <1>2, <3>6
    <2>7. Begun(a, b, l)'
      BY <2>4, <2>5, <2>6 DEF Begun
    <2>8. (\E x \in Nat, y \in 0 .. NStreams - 1, z \in Nat : Begun(x, y, z))'
      BY <2>7
    <2>. QED
      BY <2>3, <2>8 DEF AggSkew
  <1>. QED
    BY <1>13, <1>14

\* The other steps leave the set that is collected as it is, or end the collection.
LEMMA SkewStep ==
    ASSUME AggInv, AggSkew, Aggregator!Next
    PROVE  AggSkew'
  <1> USE DEF AggInv, Aggregator!camera, Aggregator!worker, Aggregator!user, Aggregator!flags
  <1> DEFINE Kept == Collecting' =>
                 /\ Collecting /\ Waiting' = Waiting
                 /\ \A u \in Aggregator!Stream : InHand(u)' <=> InHand(u)
                 /\ \A u \in Aggregator!Stream : InHand(u) => worker_frame' = worker_frame
             Fewer == DOMAIN cref' \subseteq DOMAIN cref /\ lost' = lost /\ next' = next
  <1>r. ASSUME NEW C, Aggregator!ReleaseComposites(C)
        PROVE  DOMAIN cref' \subseteq DOMAIN cref
    BY <1>r DEF Aggregator!ReleaseComposites
  <1>1. ASSUME NEW f \in Aggregator!Frame, Aggregator!Arrive(f)
        PROVE  AggSkew'
    BY <1>1, SkewArrive
  <1>2. CASE Aggregator!Lose
    BY <1>2, SkewLose
  <1>3. CASE Aggregator!HandleFrame
    BY <1>3, SkewHandle
  <1>4. CASE Aggregator!TestCallback
    <2>1. Fewer
      BY <1>4 DEF Aggregator!TestCallback
    <2>2. Kept
      BY <1>4 DEF Aggregator!TestCallback, Collecting, Waiting, InHand, Unseen, AggControl
    <2>. QED
      BY <2>1, <2>2, SkewSame
  <1>5. CASE Aggregator!TestAccepting
    <2>1. Fewer
      BY <1>5 DEF Aggregator!TestAccepting
    <2>2. Kept
      BY <1>5, SkewTypes DEF Aggregator!TestAccepting, Collecting, Waiting, InHand, Unseen,
         Aggregator!Other
    <2>. QED
      BY <2>1, <2>2, SkewSame
  <1>6. CASE Aggregator!TestSize
    <2>1. Fewer
      BY <1>6 DEF Aggregator!TestSize
    <2>2. Kept
      BY <1>6 DEF Aggregator!TestSize, Collecting, Waiting, InHand, Unseen
    <2>. QED
      BY <2>1, <2>2, SkewSame
  <1>7. CASE Aggregator!Enqueue
    <2>1. Fewer
      BY <1>7 DEF Aggregator!Enqueue
    <2>2. Kept
      BY <1>7 DEF Aggregator!Enqueue, Collecting, Waiting, InHand, Unseen
    <2>. QED
      BY <2>1, <2>2, SkewSame
  <1>8. CASE Aggregator!PopFront
    <2>1. Fewer
      BY <1>8, <1>r DEF Aggregator!PopFront
    <2>2. Kept
      BY <1>8 DEF Aggregator!PopFront, Collecting, Waiting, InHand, Unseen
    <2>. QED
      BY <2>1, <2>2, SkewSame
  <1>9. CASE Aggregator!ClearLastSet
    <2>1. Fewer
      BY <1>9 DEF Aggregator!ClearLastSet
    <2>2. Kept
      BY <1>9 DEF Aggregator!ClearLastSet, Collecting, Waiting, InHand, Unseen
    <2>. QED
      BY <2>1, <2>2, SkewSame
  <1>10. CASE Aggregator!Unref
    <2>1. Fewer
      BY <1>10, <1>r DEF Aggregator!Unref
    <2>2. Kept
      BY <1>10 DEF Aggregator!Unref, Collecting, Waiting, InHand, Unseen
    <2>. QED
      BY <2>1, <2>2, SkewSame
  <1>11. CASE Aggregator!ReleaseFrame
    <2>1. Fewer
      BY <1>11 DEF Aggregator!ReleaseFrame
    <2>2. Kept
      BY <1>11 DEF Aggregator!ReleaseFrame, Collecting, Waiting, InHand, Unseen
    <2>. QED
      BY <2>1, <2>2, SkewSame
  <1>12. CASE Aggregator!Dequeue
    <2>1. Fewer
      BY <1>12 DEF Aggregator!Dequeue
    <2>2. Kept
      BY <1>12 DEF Aggregator!Dequeue, Collecting, Waiting, InHand, Unseen
    <2>. QED
      BY <2>1, <2>2, SkewSame
  <1>13. ASSUME NEW s \in Aggregator!Stream, Aggregator!FirstOrDefault(s)
        PROVE  AggSkew'
    <2>1. Fewer
      BY <1>13 DEF Aggregator!FirstOrDefault
    <2>2. Kept
      BY <1>13 DEF Aggregator!FirstOrDefault, Collecting, Waiting, InHand, Unseen
    <2>. QED
      BY <2>1, <2>2, SkewSame
  <1>14. CASE Aggregator!DropFrame
    <2>1. Fewer
      BY <1>14 DEF Aggregator!DropFrame
    <2>2. Kept
      BY <1>14 DEF Aggregator!DropFrame, Collecting, Waiting, InHand, Unseen
    <2>. QED
      BY <2>1, <2>2, SkewSame
  <1>15. CASE Aggregator!DropSet
    <2>1. Fewer
      BY <1>15, <1>r DEF Aggregator!DropSet
    <2>2. Kept
      BY <1>15 DEF Aggregator!DropSet, Collecting, Waiting, InHand, Unseen
    <2>. QED
      BY <2>1, <2>2, SkewSame
  <1>16. CASE Aggregator!StopAccepting
    <2>1. Fewer
      BY <1>16 DEF Aggregator!StopAccepting, Aggregator!Control
    <2>2. Kept
      BY <1>16 DEF Aggregator!StopAccepting, Aggregator!Control, Collecting, Waiting, InHand, Unseen
    <2>. QED
      BY <2>1, <2>2, SkewSame
  <1>17. CASE Aggregator!StopClear
    <2>1. Fewer
      BY <1>17, <1>r DEF Aggregator!StopClear, Aggregator!Control
    <2>2. Kept
      BY <1>17 DEF Aggregator!StopClear, Aggregator!Control, Collecting, Waiting, InHand, Unseen
    <2>. QED
      BY <2>1, <2>2, SkewSame
  <1>18. CASE Aggregator!StopReset
    <2>1. Fewer
      BY <1>18 DEF Aggregator!StopReset, Aggregator!Control
    <2>2. Kept
      BY <1>18 DEF Aggregator!StopReset, Aggregator!Control, Collecting, Waiting, InHand, Unseen
    <2>. QED
      BY <2>1, <2>2, SkewSame
  <1>19. CASE Aggregator!SensorStops
    <2>1. Fewer
      BY <1>19 DEF Aggregator!SensorStops, Aggregator!Control
    <2>2. Kept
      BY <1>19 DEF Aggregator!SensorStops, Aggregator!Control, Collecting, Waiting, InHand, Unseen
    <2>. QED
      BY <2>1, <2>2, SkewSame
  <1>20. CASE Aggregator!Destroy
    <2>1. Fewer
      BY <1>20 DEF Aggregator!Destroy, Aggregator!Control
    <2>2. Kept
      BY <1>20 DEF Aggregator!Destroy, Aggregator!Control, Collecting, AggControl
    <2>. QED
      BY <2>1, <2>2, SkewSame
  <1>. QED
    BY <1>1, <1>2, <1>3, <1>4, <1>5, <1>6, <1>7, <1>8, <1>9, <1>10,
       <1>11, <1>12, <1>13, <1>14, <1>15, <1>16, <1>17, <1>18, <1>19, <1>20
       DEF Aggregator!Next, Aggregator!WorkerStep, Aggregator!UserStep, Aggregator!ControlStep

\* The frames of one composite are apart by no more packs than there were losses, for any
\* number of streams and packs (frame_aggregator.cc:104-105).
THEOREM SkewStaysWithinLoss == Aggregator!Spec => []SkewWithinLoss
  <1>1. Aggregator!Init => AggSkew
    <2> SUFFICES ASSUME Aggregator!Init
                 PROVE  AggSkew
      OBVIOUS
    <2>1. /\ next[1] = 1 /\ next[2] = 1 /\ lost = 0 /\ DOMAIN cref = {} /\ DOMAIN Waiting = {}
          /\ \A u : ~InHand(u)
      BY EmptyFunction DEF Aggregator!Init, Waiting, InHand, Unseen
    <2>2. NStreams \in Nat \ {0} /\ Aggregator!Stream = 1 .. NStreams
      BY AggConstants DEF Aggregator!Stream
    <2>3. 1 \in Aggregator!Stream /\ 0 \in 0 .. NStreams - 1
      BY <2>2
    <2>4. FullFits(0)
      BY <2>1, <2>3 DEF FullFits
    <2>5. BegunAfter(0, 0)
      BY <2>1 DEF BegunAfter
    <2>6. ASSUME NEW u \in Aggregator!Stream
          PROVE  StreamFits(0, 0, 0, u)
      <3>1. SentRounds(u) = 0 /\ RoundsTo(0, 0, u) = 0
        BY <2>1, <2>2 DEF SentRounds, RoundsTo
      <3>2. Coming(InHand(u)) = 0
        BY <2>1 DEF Coming
      <3>. QED
        BY <2>1, <3>1, <3>2 DEF StreamFits
    <2>7. Begun(0, 0, 0)
      BY <2>1, <2>4, <2>5, <2>6 DEF Begun
    <2>. QED
      BY <2>1, <2>3, <2>7 DEF AggSkew
  <1>2. AggInv /\ AggSkew /\ [Aggregator!Next]_(Aggregator!vars) => AggSkew'
    <2> SUFFICES ASSUME AggInv, AggSkew, [Aggregator!Next]_(Aggregator!vars)
                 PROVE  AggSkew'
      OBVIOUS
    <2>1. CASE Aggregator!Next
      BY <2>1, SkewStep
    <2>2. CASE UNCHANGED Aggregator!vars
      <3>1. /\ cref' = cref /\ lost' = lost /\ next' = next /\ (Collecting' <=> Collecting)
            /\ Waiting' = Waiting /\ worker_frame' = worker_frame
            /\ \A u \in Aggregator!Stream : InHand(u)' <=> InHand(u)
        BY <2>2 DEF Aggregator!vars, Aggregator!camera, Aggregator!worker, Aggregator!user,
                    Aggregator!flags, Collecting, Waiting, InHand, Unseen
      <3>. QED
        BY <3>1, SkewSame
    <2>. QED
      BY <2>1, <2>2
  <1>3. AggSkew => SkewWithinLoss
    BY DEF AggSkew, SkewOf, SkewWithinLoss, Aggregator!SkewWithinLoss
  <1>. QED
    BY <1>1, <1>2, <1>3, AggInvariant, PTL DEF Aggregator!Spec

----------------------------------------------------------------------------
(* UserFrames *)

Members ==
    [data : Nat, timestamp : Nat, num : Nat, elements : Seq(Nat \X Nat), value : Nat,
     frames : Seq(User!Single), ref_count : Int, packet : Nat]

UserTypes ==
    /\ object \in [User!Objects -> Members]
    /\ profile \in [User!Objects -> User!Streams \cup {None}]
    /\ free \in [User!Objects -> BOOLEAN]
    /\ matched \in [User!Streams -> User!Single \cup {None}]
    /\ handle \in [Handles -> [ref : User!Objects \cup {None}, packet : Nat]]
    /\ \A h \in Handles : handle[h].ref = None => handle[h] = User!NoHandle
    /\ packets \in Nat

\* The references to object o: from Frame objects, from the frames that wait, from sets.
InSet(c) == {object[c].frames[i] : i \in 1 .. Len(object[c].frames)}
FromHandles(o) == {h \in Handles : handle[h].ref = o}
FromMatched(o) == {s \in User!Streams : matched[s] = o}
FromSets(o) == {c \in User!Composite : ~free[c] /\ o \in InSet(c)}
ReferencesTo(o) ==
    Cardinality(FromHandles(o)) + Cardinality(FromMatched(o)) + Cardinality(FromSets(o))

UserCounts == \A o \in User!Objects : object[o].ref_count = ReferencesTo(o)

\* A free object is as new; one that is not is referred to.
UserFree ==
    \A o \in User!Objects :
        /\ free[o] => object[o] = User!Fresh
        /\ ~free[o] => object[o].ref_count > 0

\* A frame waits for its own stream, and so for one.
UserMatched == \A s \in User!Streams : matched[s] # None => profile[matched[s]] = s

\* Every frame that is not free shows the packet it was given to, held or not.
UserShown == \A o \in User!Single : ~free[o] => User!Shows(o, object[o].packet)

UserHandles ==
    \A h \in Handles : handle[h].ref # None => handle[h].packet = object[handle[h].ref].packet

UserInv == UserTypes /\ UserCounts /\ UserFree /\ UserMatched /\ UserShown /\ UserHandles

LEMMA UserConstants ==
    /\ IsFiniteSet(Handles) /\ IsFiniteSet(User!Streams) /\ IsFiniteSet(User!Composite)
    /\ IsFiniteSet(Slots) /\ User!Single \cap User!Composite = {} /\ None \notin User!Objects /\ Slots \subseteq Nat
    /\ \A s \in User!Streams, i \in Slots : <<StreamExtensions[s], i>> \in User!Single
    /\ \A i \in Slots : <<"COMPOSITE_FRAME", i>> \in User!Composite
    /\ User!Single \subseteq User!Objects /\ User!Composite \subseteq User!Objects
    /\ MaxPackets \in Nat
  <1>1. /\ \A s \in User!Streams : StreamExtensions[s] # "COMPOSITE_FRAME"
        /\ Slots \subseteq Nat /\ None \notin User!Objects /\ MaxPackets \in Nat
    BY UserAssumed DEF User!UserFramesAssumption
  <1>2. User!IsFiniteSet(User!Streams) /\ User!IsFiniteSet(Handles) /\ User!IsFiniteSet(Slots)
    BY UserAssumed DEF User!UserFramesAssumption
  <1>3. IsFiniteSet(User!Streams) /\ IsFiniteSet(Handles) /\ IsFiniteSet(Slots)
    BY <1>2 DEF User!IsFiniteSet, IsFiniteSet
  <1>4. IsFiniteSet(User!Composite)
    <2>1. IsFiniteSet({"COMPOSITE_FRAME"})
      BY FS_Singleton
    <2>. QED
      BY <1>3, <2>1, FS_Product DEF User!Composite
  <1>5. User!Single \cap User!Composite = {}
    BY <1>1 DEF User!Single, User!Composite, User!Extensions
  <1>. QED
    BY <1>1, <1>3, <1>4, <1>5
    DEF User!Single, User!Composite, User!Objects, User!Extensions

LEMMA LeastOf ==
    ASSUME NEW S, IsFiniteSet(S), S \subseteq Int, S # {}
    PROVE  \E x \in S : \A y \in S : x <= y
  <1> DEFINE Below(x) == {y \in S : y < x}
             T == {Below(x) : x \in S}
  <1>1. T \subseteq FiniteSubsetsOf(S) /\ T # {}
    <2>1. \A x \in S : Below(x) \in SUBSET S
      OBVIOUS
    <2>2. \A x \in S : IsFiniteSet(Below(x))
      BY <2>1, FS_Subset
    <2>3. \A V \in T : V \in FiniteSubsetsOf(S)
      BY <2>1, <2>2 DEF FiniteSubsetsOf
    <2>4. PICK x : x \in S
      OBVIOUS
    <2>5. Below(x) \in T
      BY <2>4
    <2>. QED
      BY <2>3, <2>5
  <1>2. PICK U \in T : \A V \in T : <<V, U>> \notin StrictSubsetOrdering(S)
    BY <1>1, WFMin, FS_StrictSubsetOrderingWellFounded
  <1>3. PICK x \in S : U = Below(x)
    BY <1>2
  <1>4. ASSUME NEW y \in S, y < x
        PROVE  FALSE
    <2>1. Below(y) \subseteq Below(x) /\ Below(y) # Below(x)
      <3>1. x \in Int /\ y \in Int
        BY <1>3
      <3>2. y \in Below(x) /\ y \notin Below(y)
        BY <1>4, <3>1
      <3>3. \A z \in Below(y) : z \in Below(x)
        BY <1>4, <3>1
      <3>. QED
        BY <3>2, <3>3
    <2>2. <<Below(y), Below(x)>> \in StrictSubsetOrdering(S)
      BY <2>1 DEF StrictSubsetOrdering
    <2>. QED
      BY <1>2, <1>3, <2>2
  <1>. QED
    BY <1>4

\* alloc_frame gives an object that is free.
LEMMA UserAlloc ==
    ASSUME NEW e, User!CanAlloc(e)
    PROVE  \E i \in Slots : User!Alloc(e) = <<e, i>> /\ free[<<e, i>>]
  <1> DEFINE S == {i \in Slots : free[<<e, i>>]}
             L(i) == /\ free[<<e, i>>] /\ \A j \in Slots : free[<<e, j>>] => i <= j
  <1>1. S \in SUBSET Slots /\ S # {}
    BY DEF User!CanAlloc
  <1>s. IsFiniteSet(S) /\ S \subseteq Int
    <2>1. IsFiniteSet(Slots) /\ Slots \subseteq Nat
      BY UserConstants
    <2>2. IsFiniteSet(S)
      BY <1>1, <2>1, FS_Subset
    <2> HIDE DEF S
    <2>3. S \subseteq Int
      BY <1>1, <2>1
    <2>. QED
      BY <2>2, <2>3
  <1>2. PICK i \in S : \A j \in S : i <= j
    BY <1>1, <1>s, LeastOf
  <1>3. \E j \in Slots : L(j)
    BY <1>2
  <1>4. (CHOOSE j \in Slots : L(j)) \in Slots /\ L(CHOOSE j \in Slots : L(j))
    BY <1>3
  <1>. QED
    BY <1>4 DEF User!Alloc

LEMMA FreshMembers ==
    /\ User!Fresh \in Members /\ User!Fresh.ref_count = 0 /\ User!Fresh.frames = <<>>
    /\ User!Fresh.elements = <<>>
  <1>1. <<>> \in Seq(Nat \X Nat) /\ <<>> \in Seq(User!Single)
    BY EmptySeq
  <1>. QED
    BY <1>1 DEF User!Fresh, Members

LEMMA SumZero ==
    ASSUME NEW x \in Nat, NEW y \in Nat, NEW z \in Nat
    PROVE  x + y + z = 0 <=> x = 0 /\ y = 0 /\ z = 0
  OBVIOUS

LEMMA ReferenceParts ==
    ASSUME NEW o
    PROVE  /\ IsFiniteSet(FromHandles(o)) /\ IsFiniteSet(FromMatched(o)) /\ IsFiniteSet(FromSets(o))
           /\ Cardinality(FromHandles(o)) \in Nat /\ Cardinality(FromMatched(o)) \in Nat
           /\ Cardinality(FromSets(o)) \in Nat /\ ReferencesTo(o) \in Nat
           /\ ReferencesTo(o) = Cardinality(FromHandles(o)) + Cardinality(FromMatched(o))
                              + Cardinality(FromSets(o))
           /\ ReferencesTo(o) = 0 <=> FromHandles(o) = {} /\ FromMatched(o) = {} /\ FromSets(o) = {}
  <1>1. /\ FromHandles(o) \in SUBSET Handles /\ FromMatched(o) \in SUBSET User!Streams
        /\ FromSets(o) \in SUBSET User!Composite
    BY DEF FromHandles, FromMatched, FromSets
  <1>2. IsFiniteSet(FromHandles(o)) /\ IsFiniteSet(FromMatched(o)) /\ IsFiniteSet(FromSets(o))
    BY <1>1, UserConstants, FS_Subset
  <1>3. /\ Cardinality(FromHandles(o)) \in Nat /\ Cardinality(FromMatched(o)) \in Nat
        /\ Cardinality(FromSets(o)) \in Nat
    BY <1>2, FS_CardinalityType
  <1>4. /\ Cardinality(FromHandles(o)) = 0 <=> FromHandles(o) = {}
        /\ Cardinality(FromMatched(o)) = 0 <=> FromMatched(o) = {}
        /\ Cardinality(FromSets(o)) = 0 <=> FromSets(o) = {}
    BY <1>2, FS_EmptySet
  <1>5. ReferencesTo(o) = Cardinality(FromHandles(o)) + Cardinality(FromMatched(o))
                        + Cardinality(FromSets(o))
    BY DEF ReferencesTo
  <1>6. ReferencesTo(o) = 0 <=> /\ Cardinality(FromHandles(o)) = 0 /\ Cardinality(FromMatched(o)) = 0
                              /\ Cardinality(FromSets(o)) = 0
    <2> DEFINE x == Cardinality(FromHandles(o))
               y == Cardinality(FromMatched(o))
               z == Cardinality(FromSets(o))
    <2>1. x \in Nat /\ y \in Nat /\ z \in Nat /\ ReferencesTo(o) = x + y + z
      BY <1>3, <1>5
    <2> HIDE DEF x, y, z
    <2>2. x + y + z = 0 <=> x = 0 /\ y = 0 /\ z = 0
      BY <2>1, SumZero
    <2>3. ReferencesTo(o) = 0 <=> x = 0 /\ y = 0 /\ z = 0
      BY <2>1, <2>2
    <2>. QED
      BY <2>3 DEF x, y, z
  <1>7. ReferencesTo(o) \in Nat
    BY <1>3, <1>5
  <1>. QED
    BY <1>2, <1>3, <1>4, <1>5, <1>6, <1>7

\* An object whose members but ref_count are those of before.
Same(new, old) ==
    /\ new.data = old.data /\ new.timestamp = old.timestamp /\ new.num = old.num
    /\ new.elements = old.elements /\ new.value = old.value /\ new.frames = old.frames
    /\ new.packet = old.packet

LEMMA CountMembers ==
    ASSUME NEW m \in Members, NEW n \in Int
    PROVE  /\ [m EXCEPT !.ref_count = n] \in Members /\ [m EXCEPT !.ref_count = n].ref_count = n
           /\ Same([m EXCEPT !.ref_count = n], m)
  BY DEF Members, Same

LEMMA RecountMembers ==
    ASSUME NEW m \in Members
    PROVE  /\ [m EXCEPT !.ref_count = @ + 1] \in Members /\ [m EXCEPT !.ref_count = @ + 1].ref_count = m.ref_count + 1
           /\ Same([m EXCEPT !.ref_count = @ + 1], m)
           /\ [m EXCEPT !.ref_count = @ - 1] \in Members /\ [m EXCEPT !.ref_count = @ - 1].ref_count = m.ref_count - 1
           /\ Same([m EXCEPT !.ref_count = @ - 1], m)
  <1>1. m.ref_count \in Int
    BY DEF Members
  <1>2. /\ [m EXCEPT !.ref_count = @ + 1] = [m EXCEPT !.ref_count = m.ref_count + 1]
        /\ [m EXCEPT !.ref_count = @ - 1] = [m EXCEPT !.ref_count = m.ref_count - 1]
    OBVIOUS
  <1>3. m.ref_count + 1 \in Int /\ m.ref_count - 1 \in Int
    BY <1>1
  <1>. QED
    BY <1>2, <1>3, CountMembers

\* What release() does to the objects of R.
LEMMA UserRelease ==
    ASSUME UserTypes, NEW R
    PROVE  /\ User!Release(R) \in [User!Objects -> Members]
           /\ User!Freed(R) \in [User!Objects -> BOOLEAN]
           /\ \A o \in User!Objects : o \in R /\ object[o].ref_count = 1 =>
                 User!Release(R)[o] = User!Fresh /\ User!Freed(R)[o]
           /\ \A o \in User!Objects : o \notin R =>
                 User!Release(R)[o] = object[o] /\ User!Freed(R)[o] = free[o]
           /\ \A o \in User!Objects : o \in R /\ object[o].ref_count # 1 =>
                 /\ User!Release(R)[o].ref_count = object[o].ref_count - 1
                 /\ Same(User!Release(R)[o], object[o]) /\ User!Freed(R)[o] = free[o]
  <1>1. ASSUME NEW o \in User!Objects
        PROVE  /\ object[o] \in Members /\ [object[o] EXCEPT !.ref_count = @ - 1] \in Members
               /\ free[o] \in BOOLEAN
    <2>1. object[o] \in Members /\ free[o] \in BOOLEAN
      BY DEF UserTypes
    <2>. QED
      BY <2>1, RecountMembers
  <1>2. /\ DOMAIN User!Release(R) = User!Objects
        /\ \A o \in User!Objects : User!Release(R)[o] =
              IF o \in R /\ object[o].ref_count = 1 THEN User!Fresh
              ELSE IF o \in R THEN [object[o] EXCEPT !.ref_count = @ - 1] ELSE object[o]
    BY DEF User!Release, User!Gone, User!MoveAssign
  <1>3. /\ User!Freed(R) \in [User!Objects -> BOOLEAN]
        /\ \A o \in User!Objects : User!Freed(R)[o] <=> free[o] \/ (o \in R /\ object[o].ref_count = 1)
    BY <1>1 DEF User!Freed, User!Gone
  <1>5. ASSUME NEW o \in User!Objects, o \in R, object[o].ref_count # 1
        PROVE  /\ User!Release(R)[o].ref_count = object[o].ref_count - 1
               /\ Same(User!Release(R)[o], object[o]) /\ User!Freed(R)[o] = free[o]
    <2>1. User!Release(R)[o] = [object[o] EXCEPT !.ref_count = @ - 1]
      BY <1>2, <1>5
    <2>2. /\ [object[o] EXCEPT !.ref_count = @ - 1].ref_count = object[o].ref_count - 1
          /\ Same([object[o] EXCEPT !.ref_count = @ - 1], object[o])
      BY <1>1, RecountMembers
    <2>3. User!Freed(R)[o] = free[o]
      BY <1>1, <1>3, <1>5
    <2>. QED
      BY <2>1, <2>2, <2>3
  <1>4. User!Release(R) \in [User!Objects -> Members]
    <2>1. User!Release(R) = [o \in User!Objects |-> User!Release(R)[o]]
      BY DEF User!Release
    <2>2. \A o \in User!Objects : User!Release(R)[o] \in Members
      BY <1>1, <1>2, FreshMembers
    <2>. QED
      BY <2>1, <2>2
  <1>6. ASSUME NEW o \in User!Objects, o \in R, object[o].ref_count = 1
        PROVE  User!Release(R)[o] = User!Fresh /\ User!Freed(R)[o]
    BY <1>2, <1>3, <1>6
  <1>7. ASSUME NEW o \in User!Objects, o \notin R
        PROVE  User!Release(R)[o] = object[o] /\ User!Freed(R)[o] = free[o]
    BY <1>1, <1>2, <1>3, <1>7
  <1>. QED
    BY <1>3, <1>4, <1>5, <1>6, <1>7, Zenon

\* A new frame shows its packet.
LEMMA LoadShows ==
    ASSUME NEW c, NEW p \in Nat
    PROVE  LET m == User!LoadData([User!Fresh EXCEPT !.ref_count = 1, !.packet = p], c, p)
           IN  /\ m \in Members /\ m.ref_count = 1 /\ m.packet = p /\ m.data = p
               /\ (c # "VehicleInfoFrameData" => m.timestamp = p)
               /\ (c \in User!Lists => m.elements = User!Elements(p) /\ m.num = Len(User!Elements(p)))
               /\ (c \in {"JourneyFrameData", "VehicleInfoFrameData"} => m.value = p)
  <1>1. User!Elements(p) \in Seq(Nat \X Nat) /\ Len(User!Elements(p)) \in Nat
    <2>1. p % 3 \in Nat
      OBVIOUS
    <2>2. \A i \in 1 .. p % 3 : <<p, i>> \in Nat \X Nat
      OBVIOUS
    <2>3. User!Elements(p) \in [1 .. p % 3 -> Nat \X Nat]
      BY <2>2 DEF User!Elements
    <2>4. User!Elements(p) \in Seq(Nat \X Nat)
      BY <2>1, <2>3, SeqDef
    <2>. QED
      BY <2>4, LenProperties
  <1>2. <<>> \o User!Elements(p) = User!Elements(p)
    BY <1>1, ConcatEmptySeq
  <1>3. <<>> \in Seq(Nat \X Nat) /\ <<>> \in Seq(User!Single)
    BY EmptySeq
  <1> DEFINE built == [User!Fresh EXCEPT !.ref_count = 1, !.packet = p]
  <1>6. built \in Members
    <2> DEFINE m == User!Fresh
               n == 1
    <2>1. m \in Members /\ n \in Int
      BY FreshMembers
    <2> HIDE DEF m, n
    <2>2. [m EXCEPT !.ref_count = n, !.packet = p] \in Members
      BY <2>1 DEF Members
    <2>. QED
      BY <2>2 DEF m, n
  <1>7. built.ref_count = 1 /\ built.packet = p /\ built.elements = <<>>
    BY DEF User!Fresh
  <1> HIDE DEF built
  <1>8. User!LoadData(built, c, p) =
          [built EXCEPT !.data = p,
              !.timestamp = IF c = "VehicleInfoFrameData" THEN built.timestamp ELSE p,
              !.num = IF c \in User!Lists THEN Len(User!Elements(p)) ELSE built.num,
              !.elements = IF c \in User!Lists THEN built.elements \o User!Elements(p) ELSE built.elements,
              !.value = IF c \in {"JourneyFrameData", "VehicleInfoFrameData"} THEN p ELSE built.value]
    BY <1>6 DEF Members, User!LoadData
  <1>9. /\ (IF c = "VehicleInfoFrameData" THEN built.timestamp ELSE p) \in Nat
        /\ (IF c \in User!Lists THEN Len(User!Elements(p)) ELSE built.num) \in Nat
        /\ (IF c \in User!Lists THEN built.elements \o User!Elements(p) ELSE built.elements) \in Seq(Nat \X Nat)
        /\ (IF c \in {"JourneyFrameData", "VehicleInfoFrameData"} THEN p ELSE built.value) \in Nat
    BY <1>1, <1>2, <1>6, <1>7 DEF Members
  <1>10. User!LoadData(built, c, p) \in Members
    <2> DEFINE b == IF c = "VehicleInfoFrameData" THEN built.timestamp ELSE p
               n == IF c \in User!Lists THEN Len(User!Elements(p)) ELSE built.num
               e == IF c \in User!Lists THEN built.elements \o User!Elements(p) ELSE built.elements
               v == IF c \in {"JourneyFrameData", "VehicleInfoFrameData"} THEN p ELSE built.value
    <2>1. b \in Nat /\ n \in Nat /\ e \in Seq(Nat \X Nat) /\ v \in Nat
      BY <1>9
    <2> HIDE DEF b, n, e, v
    <2>2. [built EXCEPT !.data = p, !.timestamp = b, !.num = n, !.elements = e, !.value = v] \in Members
      BY <1>6, <2>1 DEF Members
    <2>. QED
      BY <1>8, <2>2 DEF b, n, e, v
  <1>11. LET m == User!LoadData(built, c, p)
         IN  /\ m.ref_count = 1 /\ m.packet = p /\ m.data = p
             /\ (c # "VehicleInfoFrameData" => m.timestamp = p)
             /\ (c \in User!Lists => m.elements = User!Elements(p) /\ m.num = Len(User!Elements(p)))
             /\ (c \in {"JourneyFrameData", "VehicleInfoFrameData"} => m.value = p)
    BY <1>2, <1>6, <1>7 DEF Members, User!LoadData
  <1>. QED
    BY <1>10, <1>11 DEF built

LEMMA OneMore ==
    ASSUME NEW S, IsFiniteSet(S), NEW x
    PROVE  /\ Cardinality(S) \in Nat
           /\ x \notin S => Cardinality(S \cup {x}) = Cardinality(S) + 1
           /\ x \in S => Cardinality(S \ {x}) = Cardinality(S) - 1
  BY FS_AddElement, FS_RemoveElement, FS_CardinalityType

LEMMA ShowsSame ==
    ASSUME NEW o, NEW p, Same(object'[o], object[o]), profile'[o] = profile[o], User!Shows(o, p)
    PROVE  User!Shows(o, p)'
  BY DEF Same, User!Shows, User!Attributes, User!Results

LEMMA ObjectFacts ==
    ASSUME UserInv, NEW o \in User!Objects
    PROVE  /\ object[o] \in Members /\ object[o].ref_count = ReferencesTo(o) /\ free[o] \in BOOLEAN
           /\ object[o].frames \in Seq(User!Single)
           /\ (free[o] <=> ReferencesTo(o) = 0)
           /\ (free[o] => /\ object[o] = User!Fresh /\ FromHandles(o) = {} /\ FromMatched(o) = {}
                          /\ FromSets(o) = {})
  <1>1. /\ object[o] \in Members /\ object[o].ref_count = ReferencesTo(o) /\ free[o] \in BOOLEAN
        /\ (free[o] => object[o] = User!Fresh) /\ (~free[o] => object[o].ref_count > 0)
    BY DEF UserInv, UserTypes, UserCounts, UserFree
  <1>2. object[o].frames \in Seq(User!Single)
    BY <1>1 DEF Members
  <1>3. ReferencesTo(o) \in Nat
    BY ReferenceParts
  <1>4. free[o] <=> ReferencesTo(o) = 0
    <2>1. free[o] => ReferencesTo(o) = 0
      BY <1>1, FreshMembers
    <2>2. ~free[o] => ReferencesTo(o) # 0
      BY <1>1, <1>3
    <2>. QED
      BY <2>1, <2>2
  <1>. QED
    BY <1>1, <1>2, <1>4, ReferenceParts

LEMMA SetMembers ==
    ASSUME UserInv, NEW c \in User!Composite
    PROVE  InSet(c) \subseteq User!Single
  <1>1. object[c].frames \in Seq(User!Single)
    BY ObjectFacts, UserConstants
  <1>. QED
    BY <1>1, ElementOfSeq DEF InSet

\* What is left of object x when the objects of R are released.
LEMMA ReleasedObject ==
    ASSUME UserInv, NEW R, NEW x \in User!Objects, x \in R => ReferencesTo(x) # 0
    PROVE  /\ User!Release(R)[x].ref_count = (IF x \in R THEN ReferencesTo(x) - 1 ELSE ReferencesTo(x))
           /\ User!Freed(R)[x] => User!Release(R)[x] = User!Fresh
           /\ ~User!Freed(R)[x] => /\ ~free[x] /\ Same(User!Release(R)[x], object[x])
                                   /\ User!Release(R)[x].ref_count > 0
  <1>1. /\ object[x] \in Members /\ object[x].ref_count = ReferencesTo(x) /\ ReferencesTo(x) \in Nat
        /\ (free[x] <=> ReferencesTo(x) = 0) /\ (free[x] => object[x] = User!Fresh)
    BY ObjectFacts, ReferenceParts
  <1>2. CASE x \notin R
    <2>1. User!Release(R)[x] = object[x] /\ User!Freed(R)[x] = free[x]
      BY <1>2, UserRelease DEF UserInv
    <2>2. Same(object[x], object[x])
      BY DEF Same
    <2>3. ~free[x] => ReferencesTo(x) > 0
      BY <1>1
    <2>. QED
      BY <1>1, <1>2, <2>1, <2>2, <2>3
  <1>3. CASE x \in R /\ ReferencesTo(x) = 1
    <2>1. User!Release(R)[x] = User!Fresh /\ User!Freed(R)[x]
      BY <1>1, <1>3, UserRelease DEF UserInv
    <2>2. User!Fresh.ref_count = 1 - 1
      BY FreshMembers
    <2>. QED
      BY <1>3, <2>1, <2>2
  <1>4. CASE x \in R /\ ReferencesTo(x) # 1
    <2>1. /\ User!Release(R)[x].ref_count = object[x].ref_count - 1
          /\ Same(User!Release(R)[x], object[x]) /\ User!Freed(R)[x] = free[x]
      BY <1>1, <1>4, UserRelease DEF UserInv
    <2>3. ReferencesTo(x) - 1 > 0 /\ ~free[x]
      BY <1>1, <1>4
    <2>. QED
      BY <1>1, <1>4, <2>1, <2>3
  <1>. QED
    BY <1>2, <1>3, <1>4

LEMMA ReferencesPrimed ==
    ASSUME NEW o
    PROVE  /\ IsFiniteSet(FromHandles(o)') /\ IsFiniteSet(FromMatched(o)') /\ IsFiniteSet(FromSets(o)')
           /\ ReferencesTo(o)' = Cardinality(FromHandles(o)') + Cardinality(FromMatched(o)')
                               + Cardinality(FromSets(o)')
           /\ ReferencesTo(o)' \in Nat /\ (ReferencesTo(o)' = 0 => FromHandles(o)' = {})
  <1>1. (/\ IsFiniteSet(FromHandles(o)) /\ IsFiniteSet(FromMatched(o)) /\ IsFiniteSet(FromSets(o))
         /\ ReferencesTo(o) = Cardinality(FromHandles(o)) + Cardinality(FromMatched(o))
                            + Cardinality(FromSets(o))
         /\ ReferencesTo(o) \in Nat /\ (ReferencesTo(o) = 0 => FromHandles(o) = {}))'
    BY ReferenceParts, PTL
  <1>. QED
    BY <1>1

\* acquire(): one more Frame object refers to x.
LEMMA AcquireStep ==
    ASSUME UserInv, NEW g \in Handles, handle[g] = User!NoHandle, NEW x \in User!Objects,
           ReferencesTo(x) # 0,
           handle' = [handle EXCEPT ![g] = [ref |-> x, packet |-> object[x].packet]],
           object' = User!Acquire(x), UNCHANGED <<profile, free, matched, packets>>
    PROVE  UserInv'
  <1>1. /\ handle[g].ref = None /\ None # x
        /\ handle'[g] = [ref |-> x, packet |-> object[x].packet]
        /\ handle'[g].ref = x /\ handle'[g].packet = object[x].packet
        /\ \A h \in Handles : h # g => handle'[h] = handle[h]
    BY UserConstants DEF UserInv, UserTypes, User!NoHandle
  <1>2. object[x] \in Members /\ object[x].ref_count = ReferencesTo(x) /\ ~free[x] /\ ReferencesTo(x) \in Nat
    BY ObjectFacts, ReferenceParts
  <1>3. /\ DOMAIN object' = User!Objects /\ object'[x] = [object[x] EXCEPT !.ref_count = @ + 1]
        /\ \A o \in User!Objects : o # x => object'[o] = object[o]
    <2> DEFINE m == [object[x] EXCEPT !.ref_count = @ + 1]
    <2>1. object' = [object EXCEPT ![x] = m]
      BY DEF User!Acquire
    <2> HIDE DEF m
    <2>2. object \in [User!Objects -> Members]
      BY DEF UserInv, UserTypes
    <2>3. DOMAIN object' = User!Objects /\ object'[x] = m /\ \A o \in User!Objects : o # x => object'[o] = object[o]
      BY <2>1, <2>2
    <2>. QED
      BY <2>3 DEF m
  <1>4. /\ object'[x] \in Members /\ object'[x].ref_count = ReferencesTo(x) + 1 /\ Same(object'[x], object[x])
    BY <1>2, <1>3, RecountMembers
  <1>5. \A o \in User!Objects : Same(object'[o], object[o])
    BY <1>3, <1>4 DEF Same
  <1>6. UserTypes'
    <2>1. object' \in [User!Objects -> Members]
      <3>1. object' = [o \in User!Objects |-> object'[o]]
        BY DEF User!Acquire, UserInv, UserTypes
      <3>2. \A o \in User!Objects : object'[o] \in Members
        BY <1>3, <1>4 DEF UserInv, UserTypes
      <3>. QED
        BY <3>1, <3>2
    <2>2. [ref |-> x, packet |-> object[x].packet] \in [ref : User!Objects \cup {None}, packet : Nat]
      BY <1>2 DEF Members
    <2>3. handle' \in [Handles -> [ref : User!Objects \cup {None}, packet : Nat]]
      BY <2>2 DEF UserInv, UserTypes
    <2>4. \A h \in Handles : handle'[h].ref = None => handle'[h] = User!NoHandle
      BY <1>1 DEF UserInv, UserTypes
    <2>. QED
      BY <2>1, <2>3, <2>4 DEF UserInv, UserTypes
  <1>7. \A o : FromMatched(o)' = FromMatched(o) /\ FromSets(o)' = FromSets(o)
    <2>1. \A c \in User!Composite : InSet(c)' = InSet(c)
      BY <1>5, UserConstants DEF InSet, Same
    <2>. QED
      BY <2>1 DEF FromMatched, FromSets
  <1>8. FromHandles(x)' = FromHandles(x) \cup {g} /\ g \notin FromHandles(x)
    BY <1>1 DEF FromHandles
  <1>9. \A o \in User!Objects : o # x => FromHandles(o)' = FromHandles(o)
    BY <1>1, UserConstants DEF FromHandles
  <1>10. ReferencesTo(x)' = ReferencesTo(x) + 1
    <2>1. Cardinality(FromHandles(x)') = Cardinality(FromHandles(x)) + 1
      BY <1>8, OneMore, ReferenceParts
    <2>2. /\ ReferencesTo(x)' = Cardinality(FromHandles(x)') + Cardinality(FromMatched(x)')
                              + Cardinality(FromSets(x)')
      BY ReferencesPrimed
    <2>3. /\ Cardinality(FromHandles(x)) \in Nat /\ Cardinality(FromMatched(x)) \in Nat
          /\ Cardinality(FromSets(x)) \in Nat
          /\ ReferencesTo(x) = Cardinality(FromHandles(x)) + Cardinality(FromMatched(x))
                             + Cardinality(FromSets(x))
      BY ReferenceParts
    <2>4. Cardinality(FromMatched(x)') = Cardinality(FromMatched(x)) /\ Cardinality(FromSets(x)') = Cardinality(FromSets(x))
      BY <1>7
    <2>. QED
      BY <2>1, <2>2, <2>3, <2>4
  <1>11. \A o \in User!Objects : o # x => ReferencesTo(o)' = ReferencesTo(o)
    BY <1>7, <1>9 DEF ReferencesTo
  <1>12. UserCounts'
    BY <1>3, <1>4, <1>10, <1>11 DEF UserInv, UserCounts
  <1>13. UserFree'
    <2>1. ReferencesTo(x) + 1 > 0
      BY <1>2
    <2>2. ~free[x] /\ object'[x].ref_count > 0
      BY <1>2, <1>4, <2>1
    <2>3. ASSUME NEW o \in User!Objects, o # x
          PROVE  (free[o] => object'[o] = User!Fresh) /\ (~free[o] => object'[o].ref_count > 0)
      <3>1. object'[o] = object[o]
        BY <1>3, <2>3
      <3>. QED
        BY <3>1 DEF UserInv, UserFree
    <2>4. free' = free
      OBVIOUS
    <2>. QED
      BY <2>2, <2>3, <2>4 DEF UserFree, User!Fresh
  <1>14. UserMatched'
    BY DEF UserInv, UserMatched
  <1>15. UserShown'
    <2> SUFFICES ASSUME NEW o \in User!Single, ~free[o]
                 PROVE  User!Shows(o, object[o].packet)'
      BY DEF UserShown
    <2>1. Same(object'[o], object[o]) /\ o \in User!Objects /\ User!Shows(o, object[o].packet)
      BY <1>5, UserConstants DEF UserInv, UserShown
    <2> DEFINE p == object[o].packet
    <2>2. User!Shows(o, p)
      BY <2>1
    <2>3. object'[o].packet = p
      BY <2>1 DEF Same
    <2>4. \A q : User!Shows(o, q) => User!Shows(o, q)'
      BY <2>1, ShowsSame
    <2>. QED
      BY <2>2, <2>3, <2>4 DEF User!Shows
  <1>16. UserHandles'
    BY <1>1, <1>3, <1>4, <1>5 DEF UserInv, UserHandles, UserTypes, Same
  <1>. QED
    BY <1>6, <1>12, <1>13, <1>14, <1>15, <1>16 DEF UserInv

\* What every action that releases objects of R has to show: the counts follow, and the
\* objects that are left are as they were.
LEMMA ReleaseKeeps ==
    ASSUME UserInv, NEW R, \A x \in User!Objects : x \in R => ReferencesTo(x) # 0,
           NEW x \in User!Objects, object'[x] = User!Release(R)[x], free'[x] = User!Freed(R)[x],
           ReferencesTo(x)' = (IF x \in R THEN ReferencesTo(x) - 1 ELSE ReferencesTo(x))
    PROVE  /\ object'[x].ref_count = ReferencesTo(x)'
           /\ free'[x] => object'[x] = User!Fresh
           /\ ~free'[x] => object'[x].ref_count > 0 /\ ~free[x] /\ Same(object'[x], object[x])
           /\ FromHandles(x)' # {} => ~free'[x]
  <1>1. /\ User!Release(R)[x].ref_count = (IF x \in R THEN ReferencesTo(x) - 1 ELSE ReferencesTo(x))
        /\ User!Freed(R)[x] => User!Release(R)[x] = User!Fresh
        /\ ~User!Freed(R)[x] => /\ ~free[x] /\ Same(User!Release(R)[x], object[x])
                                /\ User!Release(R)[x].ref_count > 0
    BY ReleasedObject
  <1>2. ReferencesTo(x)' = 0 => FromHandles(x)' = {}
    BY ReferencesPrimed
  <1>3. free'[x] => ReferencesTo(x)' = 0
    BY <1>1, FreshMembers
  <1>. QED
    BY <1>1, <1>2, <1>3

LEMMA DestroyStep ==
    ASSUME UserInv, NEW h \in Handles, User!Destroy(h)
    PROVE  UserInv'
  <1>0. PICK o : o = handle[h].ref
    OBVIOUS
  <1> DEFINE R == User!WithFrames(o)
  <1>1. /\ object' = User!Release(R) /\ free' = User!Freed(R)
        /\ handle' = [handle EXCEPT ![h] = User!NoHandle]
        /\ profile' = profile /\ matched' = matched /\ packets' = packets
        /\ handle[h] # User!NoHandle
    BY <1>0 DEF User!Destroy, User!Holds
  <1>2. o \in User!Objects
    BY <1>0, <1>1 DEF UserInv, UserTypes
  <1>3. h \in FromHandles(o) /\ ReferencesTo(o) # 0 /\ ~free[o]
    <2>1. h \in FromHandles(o)
      BY <1>0 DEF FromHandles
    <2>2. ReferencesTo(o) # 0
      BY <2>1, ReferenceParts
    <2>. QED
      BY <1>2, <2>1, <2>2, ObjectFacts
  <1>4. object[o].ref_count = ReferencesTo(o) /\ ReferencesTo(o) \in Nat
    BY <1>2, ObjectFacts, ReferenceParts
  <1>5. /\ handle' \in [Handles -> [ref : User!Objects \cup {None}, packet : Nat]]
        /\ handle'[h] = User!NoHandle /\ handle'[h].ref = None
        /\ \A g \in Handles : g # h => handle'[g] = handle[g]
    BY <1>1 DEF UserInv, UserTypes, User!NoHandle
  <1> HIDE DEF R
  <1>6. /\ FromHandles(o)' = FromHandles(o) \ {h}
        /\ \A x \in User!Objects : x # o => FromHandles(x)' = FromHandles(x)
    BY <1>0, <1>2, <1>5, UserConstants DEF FromHandles
  <1>7. \A x : FromMatched(x)' = FromMatched(x)
    BY <1>1 DEF FromMatched
  <1>8. /\ o \in R
        /\ \A x \in User!Objects : x \in R /\ x # o => o \in FromSets(x) /\ FromSets(x)' = FromSets(x) \ {o}
        /\ \A x \in User!Objects : x \notin R \/ x = o => FromSets(x)' = FromSets(x)
    <2>1. CASE o \in User!Composite /\ ReferencesTo(o) = 1
      <3>1. R = {o} \cup InSet(o)
        BY <1>4, <2>1 DEF R, User!WithFrames, InSet
      <3>2. InSet(o) \subseteq User!Single
        BY <2>1, SetMembers
      <3>3. object'[o] = User!Fresh /\ free'[o]
        BY <1>1, <1>2, <1>4, <2>1, <3>1, UserRelease DEF UserInv
      <3>4. \A c \in User!Composite : c # o => object'[c] = object[c] /\ free'[c] = free[c]
        BY <1>1, <3>1, <3>2, UserRelease, UserConstants DEF UserInv
      <3>5. \A x : FromSets(x)' = FromSets(x) \ {o}
        BY <3>3, <3>4 DEF FromSets, InSet
      <3>6. \A x : x \in InSet(o) <=> o \in FromSets(x)
        BY <1>3, <2>1 DEF FromSets
      <3>7. o \notin InSet(o)
        BY <2>1, <3>2, UserConstants
      <3>. QED
        BY <3>1, <3>5, <3>6, <3>7
    <2>2. CASE ~(o \in User!Composite /\ ReferencesTo(o) = 1)
      <3>1. R = {o}
        BY <1>4, <2>2 DEF R, User!WithFrames
      <3>2. ASSUME NEW c \in User!Composite
            PROVE  free'[c] = free[c] /\ object'[c].frames = object[c].frames
        <4>1. c \in User!Objects /\ (c = o => object[c].ref_count # 1)
          BY <1>4, <2>2, UserConstants
        <4>. QED
          BY <1>1, <3>1, <4>1, UserRelease DEF UserInv, Same
      <3>3. \A x : FromSets(x)' = FromSets(x)
        BY <3>2 DEF FromSets, InSet
      <3>. QED
        BY <3>1, <3>3
    <2>. QED
      BY <2>1, <2>2
  <1>9. ASSUME NEW x \in User!Objects
        PROVE  /\ x \in R => ReferencesTo(x) # 0
               /\ ReferencesTo(x)' = (IF x \in R THEN ReferencesTo(x) - 1 ELSE ReferencesTo(x))
    <2>1. /\ ReferencesTo(x)' = Cardinality(FromHandles(x)') + Cardinality(FromMatched(x)')
                              + Cardinality(FromSets(x)')
      BY ReferencesPrimed
    <2>2. /\ Cardinality(FromHandles(x)) \in Nat /\ Cardinality(FromMatched(x)) \in Nat
          /\ Cardinality(FromSets(x)) \in Nat
          /\ ReferencesTo(x) = Cardinality(FromHandles(x)) + Cardinality(FromMatched(x))
                             + Cardinality(FromSets(x))
      BY ReferenceParts
    <2>3. Cardinality(FromMatched(x)') = Cardinality(FromMatched(x))
      BY <1>7
    <2>4. CASE x = o
      <3>1. Cardinality(FromHandles(x)') = Cardinality(FromHandles(x)) - 1
        BY <1>3, <1>6, <2>4, OneMore, ReferenceParts
      <3>2. Cardinality(FromSets(x)') = Cardinality(FromSets(x)) /\ x \in R /\ ReferencesTo(x) # 0
        BY <1>3, <1>8, <2>4
      <3>3. ReferencesTo(x)' = ReferencesTo(x) - 1
        BY <2>1, <2>2, <2>3, <3>1, <3>2
      <3>. QED
        BY <3>2, <3>3
    <2>5. CASE x # o /\ x \in R
      <3>1. Cardinality(FromHandles(x)') = Cardinality(FromHandles(x))
        BY <1>6, <2>5
      <3>2. o \in FromSets(x) /\ FromSets(x)' = FromSets(x) \ {o}
        BY <1>8, <2>5
      <3>3. Cardinality(FromSets(x)') = Cardinality(FromSets(x)) - 1
        BY <3>2, OneMore, ReferenceParts
      <3>4. ReferencesTo(x)' = ReferencesTo(x) - 1
        BY <2>1, <2>2, <2>3, <3>1, <3>3
      <3>5. ReferencesTo(x) # 0
        BY <3>2, ReferenceParts
      <3>. QED
        BY <2>5, <3>4, <3>5
    <2>6. CASE x # o /\ x \notin R
      <3>1. FromHandles(x)' = FromHandles(x) /\ FromSets(x)' = FromSets(x)
        BY <1>6, <1>8, <2>6
      <3>2. ReferencesTo(x)' = ReferencesTo(x)
        BY <1>7, <3>1 DEF ReferencesTo
      <3>. QED
        BY <2>6, <3>2
    <2>. QED
      BY <2>4, <2>5, <2>6
  <1>10. ASSUME NEW x \in User!Objects
         PROVE  /\ object'[x].ref_count = ReferencesTo(x)'
                /\ free'[x] => object'[x] = User!Fresh
                /\ ~free'[x] => object'[x].ref_count > 0 /\ ~free[x] /\ Same(object'[x], object[x])
                /\ FromHandles(x)' # {} => ~free'[x]
    <2>1. \A y \in User!Objects : y \in R => ReferencesTo(y) # 0
      BY <1>9
    <2>2. ReferencesTo(x)' = (IF x \in R THEN ReferencesTo(x) - 1 ELSE ReferencesTo(x))
      BY <1>9
    <2>. QED
      BY <1>1, <2>1, <2>2, ReleaseKeeps
  <1>11. UserTypes'
    BY <1>1, <1>5, UserRelease DEF UserInv, UserTypes
  <1>12. UserCounts' /\ UserFree'
    BY <1>10 DEF UserCounts, UserFree
  <1>13. UserMatched'
    BY <1>1 DEF UserInv, UserMatched
  <1>14. UserShown'
    <2> SUFFICES ASSUME NEW x \in User!Single, ~free'[x]
                 PROVE  User!Shows(x, object[x].packet)'
      BY DEF UserShown
    <2>1. Same(object'[x], object[x]) /\ profile'[x] = profile[x] /\ User!Shows(x, object[x].packet)
      BY <1>1, <1>10, UserConstants DEF UserInv, UserShown
    <2> DEFINE p == object[x].packet
    <2>2. User!Shows(x, p)
      BY <2>1
    <2>3. object'[x].packet = p
      BY <2>1 DEF Same
    <2>4. \A q : User!Shows(x, q) => User!Shows(x, q)'
      BY <2>1, ShowsSame
    <2>. QED
      BY <2>2, <2>3, <2>4 DEF User!Shows
  <1>15. UserHandles'
    <2> SUFFICES ASSUME NEW g \in Handles, handle'[g].ref # None
                 PROVE  handle'[g].packet = object'[handle'[g].ref].packet
      BY DEF UserHandles
    <2>1. g # h /\ handle'[g] = handle[g] /\ handle[g].ref \in User!Objects
          /\ handle[g].packet = object[handle[g].ref].packet
      BY <1>5 DEF UserInv, UserTypes, UserHandles
    <2>2. PICK y : y = handle[g].ref
      OBVIOUS
    <2>3. y \in User!Objects /\ FromHandles(y)' # {}
      BY <2>1, <2>2 DEF FromHandles
    <2>4. Same(object'[y], object[y])
      <3>1. \A x \in User!Objects : FromHandles(x)' # {} => Same(object'[x], object[x])
        BY <1>10
      <3>. QED
        BY <2>3, <3>1
    <2>. QED
      BY <2>1, <2>2, <2>4 DEF Same
  <1>. QED
    BY <1>11, <1>12, <1>13, <1>14, <1>15 DEF UserInv

LEMMA DeliverStep ==
    ASSUME UserInv, NEW h \in Handles, User!Deliver(h)
    PROVE  UserInv'
  <1> DEFINE N == User!Cardinality(User!Streams)
             Sent == {matched[s] : s \in User!Streams}
  <1>1. PICK fs \in [1 .. N -> Sent] :
          /\ {fs[i] : i \in DOMAIN fs} = Sent
          /\ object' = [object EXCEPT ![User!Alloc("COMPOSITE_FRAME")] =
                          User!MoveAssign(@, [User!Fresh EXCEPT !.frames = fs, !.ref_count = 1, !.packet = packets])]
          /\ free' = [free EXCEPT ![User!Alloc("COMPOSITE_FRAME")] = FALSE]
          /\ handle' = [handle EXCEPT ![h] = [ref |-> User!Alloc("COMPOSITE_FRAME"), packet |-> packets]]
    BY DEF User!Deliver
  <1>2. /\ handle[h] = User!NoHandle /\ \A s \in User!Streams : matched[s] # None
        /\ matched' = [s \in User!Streams |-> None] /\ profile' = profile /\ packets' = packets
        /\ User!CanAlloc("COMPOSITE_FRAME")
    BY DEF User!Deliver
  <1>3. PICK i \in Slots : User!Alloc("COMPOSITE_FRAME") = <<"COMPOSITE_FRAME", i>> /\ free[<<"COMPOSITE_FRAME", i>>]
    BY <1>2, UserAlloc
  <1>4. PICK c : c = <<"COMPOSITE_FRAME", i>>
    OBVIOUS
  <1>5. c \in User!Composite /\ c \in User!Objects /\ c \notin User!Single /\ free[c] /\ User!Alloc("COMPOSITE_FRAME") = c
    BY <1>3, <1>4, UserConstants
  <1>6. FromHandles(c) = {} /\ FromMatched(c) = {} /\ FromSets(c) = {}
    BY <1>5, ObjectFacts
  <1> DEFINE made == [User!Fresh EXCEPT !.frames = fs, !.ref_count = 1, !.packet = packets]
  <1>7. /\ Sent \subseteq User!Single /\ fs \in Seq(User!Single) /\ Len(fs) = N /\ DOMAIN fs = 1 .. N
    <2>1. Sent \subseteq User!Single
      BY <1>2 DEF UserInv, UserTypes
    <2>2. N \in Nat
      BY UserConstants, FS_CardinalityType DEF User!Cardinality, Cardinality, User!IsFiniteSet,
         IsFiniteSet
    <2>3. fs \in [1 .. N -> User!Single]
      BY <2>1
    <2>4. fs \in Seq(User!Single)
      BY <2>2, <2>3, SeqDef
    <2>. QED
      BY <2>1, <2>2, <2>3, <2>4, LenProperties
  <1>8. made \in Members /\ made.frames = fs /\ made.ref_count = 1 /\ made.packet = packets
    <2>1. packets \in Nat
      BY DEF UserInv, UserTypes
    <2> DEFINE m == User!Fresh
               n == 1
    <2>2. m \in Members /\ n \in Int
      BY FreshMembers
    <2> HIDE DEF m, n
    <2>3. [m EXCEPT !.frames = fs, !.ref_count = n, !.packet = packets] \in Members
      BY <1>7, <2>1, <2>2 DEF Members
    <2>4. made \in Members
      BY <2>3 DEF m, n
    <2>5. made.frames = fs /\ made.ref_count = 1 /\ made.packet = packets
      BY DEF User!Fresh
    <2>. QED
      BY <2>4, <2>5
  <1>9. /\ object' = [object EXCEPT ![c] = made] /\ free' = [free EXCEPT ![c] = FALSE]
        /\ handle' = [handle EXCEPT ![h] = [ref |-> c, packet |-> packets]]
    BY <1>1, <1>5 DEF User!MoveAssign
  <1> HIDE DEF made, Sent, N
  <1>10. /\ object' \in [User!Objects -> Members] /\ object'[c] = made
         /\ \A o \in User!Objects : o # c => object'[o] = object[o] /\ free'[o] = free[o]
         /\ free' \in [User!Objects -> BOOLEAN] /\ ~free'[c]
    BY <1>5, <1>8, <1>9 DEF UserInv, UserTypes
  <1>11. /\ handle[h].ref = None /\ handle'[h].ref = c /\ handle'[h].packet = packets
         /\ handle' \in [Handles -> [ref : User!Objects \cup {None}, packet : Nat]]
         /\ \A g \in Handles : g # h => handle'[g] = handle[g]
    BY <1>2, <1>5, <1>9 DEF UserInv, UserTypes, User!NoHandle
  <1>12. UserTypes'
    <2>1. c # None
      BY <1>5, UserConstants
    <2>2. matched' \in [User!Streams -> User!Single \cup {None}]
      BY <1>2
    <2>3. \A g \in Handles : handle'[g].ref = None => handle'[g] = User!NoHandle
      BY <1>11, <2>1 DEF UserInv, UserTypes
    <2>. QED
      BY <1>2, <1>10, <1>11, <2>2, <2>3 DEF UserInv, UserTypes
  <1>13. InSet(c)' = Sent
    <2>1. object'[c].frames = fs
      BY <1>8, <1>10
    <2>. QED
      BY <1>1, <1>7, <2>1 DEF InSet
  <1>14. \A d \in User!Composite : d # c => InSet(d)' = InSet(d) /\ free'[d] = free[d]
    BY <1>10, UserConstants DEF InSet
  <1>15. ASSUME NEW x \in User!Objects
         PROVE  object'[x].ref_count = ReferencesTo(x)'
    <2>1. /\ ReferencesTo(x)' = Cardinality(FromHandles(x)') + Cardinality(FromMatched(x)')
                              + Cardinality(FromSets(x)')
      BY ReferencesPrimed
    <2>2. /\ Cardinality(FromHandles(x)) \in Nat /\ Cardinality(FromMatched(x)) \in Nat
          /\ Cardinality(FromSets(x)) \in Nat
          /\ ReferencesTo(x) = Cardinality(FromHandles(x)) + Cardinality(FromMatched(x))
                             + Cardinality(FromSets(x))
      BY ReferenceParts
    <2>3. FromMatched(x)' = {}
      BY <1>2, UserConstants DEF FromMatched
    <2>4. Cardinality(FromMatched(x)') = 0
      BY <2>3, FS_EmptySet
    <2>5. object[x].ref_count = ReferencesTo(x)
      BY ObjectFacts
    <2>6. CASE x = c
      <3>1. FromHandles(x)' = FromHandles(x) \cup {h} /\ h \notin FromHandles(x)
        BY <1>5, <1>11, <2>6, UserConstants DEF FromHandles
      <3>2. FromSets(x)' = {}
        BY <1>6, <1>7, <1>13, <1>14, <1>5, <2>6 DEF FromSets
      <3>3. Cardinality(FromHandles(x)') = Cardinality(FromHandles(x)) + 1
        BY <3>1, OneMore, ReferenceParts
      <3>4. Cardinality(FromHandles(x)) = 0 /\ Cardinality(FromSets(x)') = 0
        BY <1>6, <2>6, <3>2, FS_EmptySet
      <3>. QED
        BY <1>8, <1>10, <2>1, <2>4, <2>6, <3>3, <3>4
    <2>7. CASE x # c
      <3>1. FromHandles(x)' = FromHandles(x)
        BY <1>11, <2>7, UserConstants DEF FromHandles
      <3>2. object'[x] = object[x]
        BY <1>10, <2>7
      <3>3. CASE x \in Sent
        <4>1. PICK s \in User!Streams : matched[s] = x
          BY <3>3 DEF Sent
        <4>2. FromMatched(x) = {s}
          <5>1. \A t \in User!Streams : matched[t] = x => t = profile[x]
            BY <1>2 DEF UserInv, UserMatched
          <5>. QED
            BY <4>1, <5>1 DEF FromMatched
        <4>3. Cardinality(FromMatched(x)) = 1
          BY <4>2, FS_Singleton
        <4>4. FromSets(x)' = FromSets(x) \cup {c} /\ c \notin FromSets(x)
          BY <1>5, <1>10, <1>13, <1>14, <3>3 DEF FromSets
        <4>5. Cardinality(FromSets(x)') = Cardinality(FromSets(x)) + 1
          BY <4>4, OneMore, ReferenceParts
        <4>. QED
          BY <2>1, <2>2, <2>4, <2>5, <3>1, <3>2, <4>3, <4>5
      <3>4. CASE x \notin Sent
        <4>1. FromMatched(x) = {}
          BY <3>4 DEF FromMatched, Sent
        <4>2. FromSets(x)' = FromSets(x)
          BY <1>5, <1>10, <1>13, <1>14, <3>4 DEF FromSets
        <4>3. ReferencesTo(x)' = ReferencesTo(x)
          BY <2>3, <3>1, <4>1, <4>2 DEF ReferencesTo
        <4>. QED
          BY <2>5, <3>2, <4>3
      <3>. QED
        BY <3>3, <3>4
    <2>. QED
      BY <2>6, <2>7
  <1>16. UserCounts'
    BY <1>15 DEF UserCounts
  <1>17. UserFree'
    <2>1. object'[c].ref_count > 0
      BY <1>8, <1>10
    <2>. QED
      BY <1>10, <2>1 DEF UserInv, UserFree
  <1>18. UserMatched'
    BY <1>2 DEF UserMatched
  <1>19. UserShown'
    <2> SUFFICES ASSUME NEW x \in User!Single, ~free'[x]
                 PROVE  User!Shows(x, object[x].packet)'
      BY DEF UserShown
    <2>1. object'[x] = object[x] /\ profile'[x] = profile[x] /\ User!Shows(x, object[x].packet)
      BY <1>2, <1>5, <1>10, UserConstants DEF UserInv, UserShown
    <2>. QED
      BY <2>1 DEF User!Shows, User!Attributes, User!Results
  <1>20. UserHandles'
    <2> SUFFICES ASSUME NEW g \in Handles, handle'[g].ref # None
                 PROVE  handle'[g].packet = object'[handle'[g].ref].packet
      BY DEF UserHandles
    <2>1. CASE g = h
      BY <1>8, <1>10, <1>11, <2>1
    <2>2. CASE g # h
      <3>1. handle'[g] = handle[g] /\ handle[g].ref # c /\ handle[g].ref \in User!Objects
        BY <1>6, <1>11, <2>2 DEF FromHandles, UserInv, UserTypes
      <3>. QED
        BY <1>10, <3>1 DEF UserInv, UserHandles
    <2>. QED
      BY <2>1, <2>2
  <1>. QED
    BY <1>12, <1>16, <1>17, <1>18, <1>19, <1>20 DEF UserInv

LEMMA ReceiveStep ==
    ASSUME UserInv, NEW s \in User!Streams, User!Receive(s)
    PROVE  UserInv'
  <1>1. packets' = packets + 1 /\ handle' = handle /\ packets \in Nat /\ packets' \in Nat
    BY DEF User!Receive, UserInv, UserTypes
  <1>2. CASE ~User!CanAlloc(StreamExtensions[s])
    <2>1. UNCHANGED <<object, profile, free, matched, handle>>
      BY <1>1, <1>2 DEF User!Receive
    <2>2. \A x : ReferencesTo(x)' = ReferencesTo(x)
      BY <2>1 DEF ReferencesTo, FromHandles, FromMatched, FromSets, InSet
    <2>3. UserTypes' /\ UserFree' /\ UserMatched' /\ UserHandles'
      BY <1>1, <2>1 DEF UserInv, UserTypes, UserFree, UserMatched, UserHandles
    <2>4. UserCounts'
      BY <2>1, <2>2 DEF UserInv, UserCounts
    <2>5. UserShown'
      BY <2>1 DEF UserInv, UserShown, User!Shows, User!Attributes, User!Results
    <2>. QED
      BY <2>3, <2>4, <2>5 DEF UserInv
  <1>3. CASE User!CanAlloc(StreamExtensions[s])
    <2>1. PICK i \in Slots : User!Alloc(StreamExtensions[s]) = <<StreamExtensions[s], i>> /\ free[<<StreamExtensions[s], i>>]
      BY <1>3, UserAlloc
    <2>2. PICK o : o = <<StreamExtensions[s], i>>
      OBVIOUS
    <2>3. o \in User!Single /\ o \in User!Objects /\ o \notin User!Composite /\ free[o]
      BY <2>1, <2>2, UserConstants
    <2> DEFINE R == {matched[s]} \ {None}
               p == packets'
               loaded == User!LoadData([User!Fresh EXCEPT !.ref_count = 1, !.packet = p], User!Class(o), p)
    <2>4. /\ object' = [User!Release(R) EXCEPT ![o] = loaded]
          /\ free' = [User!Freed(R) EXCEPT ![o] = FALSE]
          /\ profile' = [profile EXCEPT ![o] = s] /\ matched' = [matched EXCEPT ![s] = o]
      BY <1>3, <2>1, <2>2 DEF User!Receive, User!MoveAssign, User!SetStreamProfile
    <2>5. /\ loaded \in Members /\ loaded.ref_count = 1 /\ loaded.packet = p /\ loaded.data = p
          /\ (User!Class(o) # "VehicleInfoFrameData" => loaded.timestamp = p)
          /\ (User!Class(o) \in User!Lists => loaded.elements = User!Elements(p) /\ loaded.num = Len(User!Elements(p)))
          /\ (User!Class(o) \in {"JourneyFrameData", "VehicleInfoFrameData"} => loaded.value = p)
      <3>1. p \in Nat
        BY <1>1
      <3> DEFINE c == User!Class(o)
      <3> HIDE DEF p, c
      <3>2. LET m == User!LoadData([User!Fresh EXCEPT !.ref_count = 1, !.packet = p], c, p)
            IN  /\ m \in Members /\ m.ref_count = 1 /\ m.packet = p /\ m.data = p
                /\ (c # "VehicleInfoFrameData" => m.timestamp = p)
                /\ (c \in User!Lists => m.elements = User!Elements(p) /\ m.num = Len(User!Elements(p)))
                /\ (c \in {"JourneyFrameData", "VehicleInfoFrameData"} => m.value = p)
        BY <3>1, LoadShows
      <3>. QED
        BY <3>2 DEF c
    <2> HIDE DEF loaded, p
    <2>6. FromHandles(o) = {} /\ FromMatched(o) = {} /\ FromSets(o) = {} /\ o \notin R
      <3>1. FromHandles(o) = {} /\ FromMatched(o) = {} /\ FromSets(o) = {}
        BY <2>3, ObjectFacts
      <3>. QED
        BY <3>1 DEF FromMatched
    <2>7. R \subseteq User!Single /\ \A x \in R : x = matched[s] /\ s \in FromMatched(x)
      BY DEF UserInv, UserTypes, FromMatched
    <2>8. /\ object' \in [User!Objects -> Members] /\ free' \in [User!Objects -> BOOLEAN]
          /\ object'[o] = loaded /\ ~free'[o]
          /\ \A x \in User!Objects : x # o => object'[x] = User!Release(R)[x] /\ free'[x] = User!Freed(R)[x]
      BY <2>3, <2>4, <2>5, UserRelease DEF UserInv
    <2>9. /\ profile' \in [User!Objects -> User!Streams \cup {None}] /\ profile'[o] = s
          /\ \A x \in User!Objects : x # o => profile'[x] = profile[x]
          /\ matched' \in [User!Streams -> User!Single \cup {None}] /\ matched'[s] = o
          /\ \A t \in User!Streams : t # s => matched'[t] = matched[t]
      BY <2>3, <2>4 DEF UserInv, UserTypes
    <2>10. \A x : FromHandles(x)' = FromHandles(x) /\ FromSets(x)' = FromSets(x)
      <3>1. \A c \in User!Composite : object'[c] = object[c] /\ free'[c] = free[c]
        BY <2>3, <2>7, <2>8, UserConstants, UserRelease DEF UserInv
      <3>. QED
        BY <1>1, <3>1 DEF FromHandles, FromSets, InSet
    <2>11. /\ FromMatched(o)' = {s}
           /\ \A x \in User!Objects : x # o /\ x \in R => FromMatched(x)' = FromMatched(x) \ {s}
           /\ \A x \in User!Objects : x # o /\ x \notin R => FromMatched(x)' = FromMatched(x)
      <3>1. FromMatched(o)' = {s}
        BY <2>6, <2>9 DEF FromMatched
      <3>2. \A x \in User!Objects : x # o => FromMatched(x)' = FromMatched(x) \ {s}
        BY <2>9 DEF FromMatched
      <3>3. \A x \in User!Objects : x \notin R => s \notin FromMatched(x)
        BY UserConstants DEF FromMatched
      <3>. QED
        BY <3>1, <3>2, <3>3
    <2> HIDE DEF R
    <2>12. \A x \in User!Objects : x \in R => ReferencesTo(x) # 0
      BY <2>7, ReferenceParts
    <2>13. ASSUME NEW x \in User!Objects, x # o
           PROVE  ReferencesTo(x)' = (IF x \in R THEN ReferencesTo(x) - 1 ELSE ReferencesTo(x))
      <3>1. CASE x \in R
        <4>1. Cardinality(FromMatched(x)') = Cardinality(FromMatched(x)) - 1
          BY <2>7, <2>11, <2>13, <3>1, OneMore, ReferenceParts
        <4>2. ReferencesTo(x)' = Cardinality(FromHandles(x)) + Cardinality(FromMatched(x)')
                               + Cardinality(FromSets(x))
          BY <2>10, ReferencesPrimed
        <4>3. /\ Cardinality(FromHandles(x)) \in Nat /\ Cardinality(FromMatched(x)) \in Nat
              /\ Cardinality(FromSets(x)) \in Nat
              /\ ReferencesTo(x) = Cardinality(FromHandles(x)) + Cardinality(FromMatched(x))
                                 + Cardinality(FromSets(x))
          BY ReferenceParts
        <4>4. ReferencesTo(x)' = ReferencesTo(x) - 1
          BY <4>1, <4>2, <4>3
        <4>. QED
          BY <3>1, <4>4
      <3>2. CASE x \notin R
        BY <2>10, <2>11, <2>13, <3>2 DEF ReferencesTo
      <3>. QED
        BY <3>1, <3>2
    <2>14. ASSUME NEW x \in User!Objects, x # o
           PROVE  /\ object'[x].ref_count = ReferencesTo(x)'
                  /\ free'[x] => object'[x] = User!Fresh
                  /\ ~free'[x] => object'[x].ref_count > 0 /\ ~free[x] /\ Same(object'[x], object[x])
                  /\ FromHandles(x)' # {} => ~free'[x]
      <3>1. /\ object'[x] = User!Release(R)[x] /\ free'[x] = User!Freed(R)[x]
            /\ ReferencesTo(x)' = (IF x \in R THEN ReferencesTo(x) - 1 ELSE ReferencesTo(x))
        BY <2>8, <2>13, <2>14
      <3>. QED
        BY <2>12, <3>1, ReleaseKeeps
    <2>15. object'[o].ref_count = ReferencesTo(o)' /\ object'[o].ref_count > 0
      <3>1. ReferencesTo(o)' = Cardinality(FromHandles(o)') + Cardinality(FromMatched(o)')
                             + Cardinality(FromSets(o)')
        BY ReferencesPrimed
      <3>2. Cardinality(FromHandles(o)') = 0 /\ Cardinality(FromSets(o)') = 0
        BY <2>6, <2>10, FS_EmptySet
      <3>3. Cardinality(FromMatched(o)') = 1
        BY <2>11, FS_Singleton
      <3>. QED
        BY <2>5, <2>8, <3>1, <3>2, <3>3
    <2>16. UserTypes'
      BY <1>1, <2>8, <2>9 DEF UserInv, UserTypes
    <2>17. UserCounts' /\ UserFree'
      BY <2>8, <2>14, <2>15 DEF UserCounts, UserFree
    <2>18. UserMatched'
      <3> SUFFICES ASSUME NEW t \in User!Streams, matched'[t] # None
                   PROVE  profile'[matched'[t]] = t
        BY DEF UserMatched
      <3>1. CASE t = s
        BY <2>9, <3>1
      <3>2. CASE t # s
        <4>1. matched'[t] = matched[t] /\ matched[t] # o /\ matched[t] \in User!Objects
          BY <2>6, <2>9, <3>2, UserConstants DEF FromMatched, UserInv, UserTypes
        <4>. QED
          BY <2>9, <4>1 DEF UserInv, UserMatched
      <3>. QED
        BY <3>1, <3>2
    <2>19. UserShown'
      <3> SUFFICES ASSUME NEW x \in User!Single, ~free'[x]
                   PROVE  User!Shows(x, object[x].packet)'
        BY DEF UserShown
      <3>1. CASE x = o
        <4>1. object'[o] = loaded /\ profile'[o] = s /\ StreamExtensions[s] = o[1]
          BY <2>2, <2>8, <2>9
        <4>. QED
          BY <2>5, <3>1, <4>1 DEF User!Shows, User!Attributes, User!Results
      <3>2. CASE x # o
        <4>1. Same(object'[x], object[x]) /\ profile'[x] = profile[x] /\ User!Shows(x, object[x].packet)
          BY <2>9, <2>14, <3>2, UserConstants DEF UserInv, UserShown
        <4> DEFINE q == object[x].packet
        <4>2. User!Shows(x, q)
          BY <4>1
        <4>3. object'[x].packet = q
          BY <4>1 DEF Same
        <4>4. \A r : User!Shows(x, r) => User!Shows(x, r)'
          BY <4>1, ShowsSame
        <4>. QED
          BY <4>2, <4>3, <4>4 DEF User!Shows
      <3>. QED
        BY <3>1, <3>2
    <2>20. UserHandles'
      <3> SUFFICES ASSUME NEW g \in Handles, handle[g].ref # None
                   PROVE  handle[g].packet = object'[handle[g].ref].packet
        BY <1>1 DEF UserHandles
      <3>1. PICK y : y = handle[g].ref
        OBVIOUS
      <3>2. y \in User!Objects /\ FromHandles(y) # {} /\ handle[g].packet = object[y].packet
        BY <3>1 DEF FromHandles, UserInv, UserTypes, UserHandles
      <3>3. y # o
        BY <2>6, <3>2
      <3>4. FromHandles(y)' # {}
        BY <2>10, <3>2
      <3>5. Same(object'[y], object[y])
        BY <2>14, <3>2, <3>3, <3>4
      <3>. QED
        BY <3>1, <3>2, <3>5 DEF Same
    <2>. QED
      BY <2>16, <2>17, <2>18, <2>19, <2>20 DEF UserInv
  <1>. QED
    BY <1>2, <1>3

LEMMA UserInvariant == User!Spec => []UserInv
  <1>1. User!Init => UserInv
    <2> SUFFICES ASSUME User!Init
                 PROVE  UserInv
      OBVIOUS
    <2> USE DEF User!Init
    <2>1. UserTypes
      <3>1. object \in [User!Objects -> Members]
        BY FreshMembers
      <3>2. User!NoHandle \in [ref : User!Objects \cup {None}, packet : Nat]
        BY DEF User!NoHandle
      <3>3. handle \in [Handles -> [ref : User!Objects \cup {None}, packet : Nat]]
        BY <3>2
      <3>. QED
        BY <3>1, <3>3 DEF UserTypes
    <2>2. UserCounts
      <3> SUFFICES ASSUME NEW o \in User!Objects
                   PROVE  object[o].ref_count = ReferencesTo(o)
        BY DEF UserCounts
      <3>1. o # None
        BY UserConstants
      <3>2. FromHandles(o) = {} /\ FromMatched(o) = {}
        BY <3>1 DEF FromHandles, FromMatched, User!NoHandle
      <3>3. FromSets(o) = {}
        BY UserConstants DEF FromSets
      <3>4. ReferencesTo(o) = 0
        BY <3>2, <3>3, ReferenceParts
      <3>. QED
        BY <3>4, FreshMembers
    <2>3. UserFree /\ UserMatched /\ UserShown /\ UserHandles
      BY UserConstants DEF UserFree, UserMatched, UserShown, UserHandles, User!NoHandle
    <2>. QED
      BY <2>1, <2>2, <2>3 DEF UserInv
  <1>2. UserInv /\ [User!Next]_(User!vars) => UserInv'
    <2> SUFFICES ASSUME UserInv, [User!Next]_(User!vars)
                 PROVE  UserInv'
      OBVIOUS
    <2>1. ASSUME NEW s \in User!Streams, User!Receive(s)
          PROVE  UserInv'
      BY <2>1, ReceiveStep
    <2>2. ASSUME NEW h \in Handles, User!Deliver(h)
          PROVE  UserInv'
      BY <2>2, DeliverStep
    <2>3. ASSUME NEW h \in Handles, User!Destroy(h)
          PROVE  UserInv'
      BY <2>3, DestroyStep
    <2>4. ASSUME NEW h \in Handles, NEW g \in Handles, User!Copy(h, g)
          PROVE  UserInv'
      <3>1. PICK x : x = handle[h].ref
        OBVIOUS
      <3>2. handle[g] = User!NoHandle /\ handle[h] # User!NoHandle /\ object' = User!Acquire(x)
            /\ handle' = [handle EXCEPT ![g] = handle[h]] /\ UNCHANGED <<profile, free, matched, packets>>
        BY <2>4, <3>1 DEF User!Copy, User!Holds
      <3>3. x \in User!Objects /\ handle[h].packet = object[x].packet /\ h \in FromHandles(x)
        BY <3>1, <3>2 DEF UserInv, UserTypes, UserHandles, FromHandles
      <3>4. ReferencesTo(x) # 0
        BY <3>3, ReferenceParts
      <3>5. handle[h] = [ref |-> x, packet |-> object[x].packet]
        <4>1. handle[h] \in [ref : User!Objects \cup {None}, packet : Nat]
          BY DEF UserInv, UserTypes
        <4>. QED
          BY <3>1, <3>3, <4>1
      <3>. QED
        BY <3>2, <3>3, <3>4, <3>5, AcquireStep
    <2>5. ASSUME NEW h \in Handles, NEW g \in Handles, NEW s \in User!Streams, User!FirstOrDefault(h, g, s)
          PROVE  UserInv'
      <3>1. PICK c : c = handle[h].ref
        OBVIOUS
      <3>2. PICK i \in 1 .. Len(object[c].frames) :
              /\ handle' = [handle EXCEPT ![g] = User!Handle(object[c].frames[i])]
              /\ object' = User!Acquire(object[c].frames[i])
        BY <2>5, <3>1 DEF User!FirstOrDefault, User!Frames
      <3>3. /\ handle[g] = User!NoHandle /\ c \in User!Composite
            /\ UNCHANGED <<profile, free, matched, packets>>
        BY <2>5, <3>1 DEF User!FirstOrDefault, User!Holds, User!FrameSet
      <3>4. PICK x : x = object[c].frames[i]
        OBVIOUS
      <3>5. x \in InSet(c) /\ x \in User!Objects
        <4>1. x \in InSet(c)
          BY <3>4 DEF InSet
        <4>. QED
          BY <3>3, <4>1, SetMembers, UserConstants
      <3>6. ~free[c]
        <4>1. h \in FromHandles(c)
          BY <3>1 DEF FromHandles
        <4>. QED
          BY <3>3, <4>1, ObjectFacts, UserConstants
      <3>7. ReferencesTo(x) # 0
        <4>1. c \in FromSets(x)
          BY <3>3, <3>5, <3>6 DEF FromSets
        <4>. QED
          BY <4>1, ReferenceParts
      <3>8. handle' = [handle EXCEPT ![g] = [ref |-> x, packet |-> object[x].packet]]
            /\ object' = User!Acquire(x)
        BY <3>2, <3>4 DEF User!Handle
      <3>. QED
        BY <3>3, <3>5, <3>7, <3>8, AcquireStep
    <2>6. CASE UNCHANGED User!vars
      <3>1. UNCHANGED <<object, profile, free, matched, handle, packets>>
        BY <2>6 DEF User!vars
      <3>2. \A x : ReferencesTo(x)' = ReferencesTo(x)
        BY <3>1 DEF ReferencesTo, FromHandles, FromMatched, FromSets, InSet
      <3>3. UserTypes' /\ UserFree' /\ UserMatched' /\ UserHandles'
        BY <3>1 DEF UserInv, UserTypes, UserFree, UserMatched, UserHandles
      <3>4. UserCounts'
        BY <3>1, <3>2 DEF UserInv, UserCounts
      <3>5. UserShown'
        BY <3>1 DEF UserInv, UserShown, User!Shows, User!Attributes, User!Results
      <3>. QED
        BY <3>3, <3>4, <3>5 DEF UserInv
    <2>. QED
      BY <2>1, <2>2, <2>3, <2>4, <2>5, <2>6 DEF User!Next
  <1>. QED
    BY <1>1, <1>2, PTL DEF User!Spec

LEMMA HoldsReference ==
    ASSUME UserInv, NEW h \in Handles, User!Holds(h)
    PROVE  /\ handle[h].ref \in User!Objects /\ ~free[handle[h].ref]
           /\ handle[h].packet = object[handle[h].ref].packet
  <1>1. PICK o : o = handle[h].ref
    OBVIOUS
  <1>2. o \in User!Objects /\ handle[h].packet = object[o].packet /\ h \in FromHandles(o)
    BY <1>1 DEF UserInv, UserTypes, UserHandles, User!Holds, FromHandles
  <1>3. ~free[o]
    BY <1>2, ObjectFacts
  <1>. QED
    BY <1>1, <1>2, <1>3

\* A Frame that the application holds shows the packet it was made for, for any streams
\* and extensions, objects, Frame objects and packets: every class of frame and every
\* way its object is used again (frame_data.cc:117-132, 307-397; se_types.hpp:126-145).
THEOREM FramesShow == User!Spec => []FramesShowTheirPacket
  <1>1. UserInv => FramesShowTheirPacket
    <2> SUFFICES ASSUME UserInv, NEW h \in Handles, User!Holds(h)
                 PROVE  /\ object[handle[h].ref].packet = handle[h].packet /\ ~free[handle[h].ref]
                        /\ handle[h].ref \in User!Single => User!Shows(handle[h].ref, handle[h].packet)
      BY DEF FramesShowTheirPacket, User!FramesShowTheirPacket
    <2>1. ~free[handle[h].ref] /\ handle[h].packet = object[handle[h].ref].packet
      BY HoldsReference
    <2>2. handle[h].ref \in User!Single => User!Shows(handle[h].ref, object[handle[h].ref].packet)
      BY <2>1 DEF UserInv, UserShown
    <2>. QED
      BY <2>1, <2>2
  <1>. QED
    BY <1>1, UserInvariant, PTL

\* The counts of references of the objects stay natural and every Frame refers to an object.
THEOREM UserTypeCorrect == User!Spec => []User!TypeOK
  <1>1. UserInv => User!TypeOK
    <2> SUFFICES ASSUME UserInv
                 PROVE  User!TypeOK
      OBVIOUS
    <2>1. \A o \in User!Objects : object[o].ref_count \in Nat
      BY ObjectFacts, ReferenceParts
    <2>2. \A h \in Handles : User!Holds(h) => handle[h].ref \in User!Objects
      BY HoldsReference
    <2>. QED
      BY <2>1, <2>2 DEF UserInv, UserTypes, User!TypeOK
  <1>. QED
    BY <1>1, UserInvariant, PTL

\* No frame of a set that the application holds goes back to its archive, as long as the
\* frames are taken by firstOrDefault(), which acquires them (frame.cc:124-139); with
\* operator[](size_t) the run user_frames_indexed shows that they do.
THEOREM SetsKeepTheirFrames == User!Spec => []LastObserver
  <1>1. UserInv => LastObserver
    <2> SUFFICES ASSUME UserInv, NEW h \in Handles, User!FrameSet(h),
                        NEW i \in 1 .. Len(User!Frames(h))
                 PROVE  ~free[User!Frames(h)[i]]
      BY DEF LastObserver, User!LastObserver
    <2>1. PICK c : c = handle[h].ref
      OBVIOUS
    <2>2. c \in User!Composite /\ ~free[c] /\ User!Frames(h) = object[c].frames
      BY <2>1, HoldsReference DEF User!FrameSet, User!Frames
    <2>3. PICK x : x = object[c].frames[i]
      OBVIOUS
    <2>4. x \in InSet(c)
      BY <2>2, <2>3 DEF InSet
    <2>5. x \in User!Objects /\ c \in FromSets(x)
      BY <2>2, <2>4, SetMembers, UserConstants DEF FromSets
    <2>6. ~free[x]
      BY <2>5, ObjectFacts
    <2>. QED
      BY <2>2, <2>3, <2>6
  <1>. QED
    BY <1>1, UserInvariant, PTL

----------------------------------------------------------------------------

\* The type invariants of the parts a frame passes through.
THEOREM TypesCorrect ==
    Spec /\ Aggregator!Spec /\ User!Spec /\ Units!Spec => []TypesOK
  BY TypeCorrect, AggregatorTypeCorrect, UserTypeCorrect, UnitTypeCorrect, PTL DEF TypesOK

=============================================================================
