---------------------------- MODULE MemoryProofs ----------------------------
(***************************************************************************)
(* Proofs about the memory palace, for all conversations, names of wings   *)
(* and topics, and every number of messages, attempts, merges, deletions,  *)
(* failures and crashes: a message is mined once, and a merge takes no     *)
(* drawer that it could have moved.                                        *)
(***************************************************************************)
EXTENDS Memory, FiniteSetTheorems, SequenceTheorems, WellFoundedInduction, TLAPS

WingIds   == Names \X Nat
RoomIds   == WingIds \X Convs
ClosetIds == RoomIds \X Topics
DrawerIds == Convs \X Nat \X Nat

\* What a reorganization holds.
MergeRecords ==
    [at : {"idle", "wings", "wing", "moveRooms", "deleteWing", "closets", "closet",
           "moveDrawers", "deleteCloset"},
     from : WingIds \cup ClosetIds \cup {NoRow}, to : WingIds \cup ClosetIds \cup {NoRow},
     moved : SUBSET (RoomIds \cup DrawerIds), before : SUBSET DrawerIds,
     wings : Seq(Merges(WingIds)), closets : SUBSET Merges(ClosetIds)]

\* Rows and ids of the palace, and what a miner holds.
Types ==
    /\ messages \in [Convs -> Nat] /\ attempts \in [Convs -> Nat]
    /\ job \in [Convs -> {"none", "queued", "running", "done", "failed"}]
    /\ wings \subseteq WingIds /\ IsFiniteSet(wings) /\ born \in [Names -> Nat]
    /\ rooms \subseteq [id : RoomIds, wing : WingIds]
    /\ closets \subseteq ClosetIds /\ IsFiniteSet(closets)
    /\ drawers \subseteq [id : DrawerIds, closet : ClosetIds] /\ IsFiniteSet(drawers)
    /\ pc \in [Convs -> {"idle", "read", "wing", "newWing", "room", "closet", "drawer", "finish"}]
    /\ turns \in [Convs -> SUBSET Nat] /\ cache \in [Convs -> SUBSET Topics]
    /\ wing \in [Convs -> WingIds \cup {NoRow}] /\ room \in [Convs -> RoomIds \cup {NoRow}]
    /\ topic \in [Convs -> Topics \cup {NoRow}]
    /\ merge \in MergeRecords

\* A miner works while its job runs, and has messages to store until it is through.
MinerPlace(c) ==
    /\ pc[c] # "idle" => job[c] = "running"
    /\ turns[c] = {} <=> pc[c] \in {"idle", "read", "finish"}
    /\ pc[c] \in {"newWing", "room"} => wing[c] \in WingIds
    /\ pc[c] \in {"closet", "drawer"} => room[c] \in RoomIds
    /\ pc[c] = "drawer" => topic[c] \in Topics

\* What a miner has still to store is not stored.
OnceInv ==
    /\ MinedOnce
    /\ \A c \in Convs : \A k \in turns[c] : ~Mined(c, k)

\* The drawers of an earlier attempt are of another name, also when they are gone; the
\* attempt under way has named those of messages it has done with.
NamesAreFresh ==
    \A i \in Ids(drawers) \cup merge.before :
        /\ i[3] <= attempts[i[1]]
        /\ i[3] = attempts[i[1]] => pc[i[1]] # "read" /\ i[2] \notin turns[i[1]]

\* The foreign keys that drawers, closets and rooms hang on.
BelowStands ==
    /\ \A d \in drawers : d.closet \in closets
    /\ \A cl \in closets : cl[1] \in Ids(rooms)
    /\ \A r \in rooms : r.wing \in wings

\* The merges of wings to come are of wings that are there, and none names an earlier loser:
\* also the winner of one merge may be the loser of a later one.
PlanInv ==
    /\ \A i \in 1 .. Len(merge.wings) : merge.wings[i] \in Merges(wings)
    /\ \A i, j \in 1 .. Len(merge.wings) : i < j =>
         merge.wings[i].from # merge.wings[j].from /\ merge.wings[i].from # merge.wings[j].to
    /\ At("moveRooms") \/ At("deleteWing") =>
         /\ merge.from \in wings /\ merge.to \in wings /\ merge.from # merge.to
         /\ \A i \in 1 .. Len(merge.wings) :
              merge.from # merge.wings[i].from /\ merge.from # merge.wings[i].to

\* A closet loses once, and one that wins never loses.
ClosetPlanInv ==
    /\ \A m \in merge.closets : m \in Merges(closets)
    /\ \A m, n \in merge.closets : m.to # n.from /\ (m.from = n.from => m = n)
    /\ At("moveDrawers") \/ At("deleteCloset") =>
         /\ merge.from \in closets /\ merge.to \in closets /\ merge.from # merge.to
         /\ \A m \in merge.closets : merge.from # m.from /\ merge.from # m.to

\* A merge deletes a wing or a closet below which no drawer is left that was there when
\* it moved the rows.
MergeInv ==
    /\ At("deleteWing") => \A d \in drawers : d.id \in merge.before =>
         \E r \in rooms : r.id = d.closet[1] /\ (r.id \in merge.moved \/ r.wing # merge.from)
    /\ At("deleteCloset") => \A d \in drawers :
         d.id \in merge.before => d.id \in merge.moved \/ d.closet # merge.from

PalaceInv ==
    /\ Types /\ OnceInv /\ NamesAreFresh /\ BelowStands /\ PlanInv /\ ClosetPlanInv /\ MergeInv
    /\ \A c \in Convs : MinerPlace(c)

-----------------------------------------------------------------------------
(* Lemmas about the operators. *)

LEMMA LeastIsThere ==
    ASSUME NEW T, T \subseteq Nat, T # {}
    PROVE  Min(T) \in T
<1> DEFINE R == OpToRel(<, Nat)
<1>1. IsWellFoundedOn(R, Nat)
  BY NatLessThanWellFounded
<1>2. \A x, y \in Nat : y < x => <<y, x>> \in R
  BY DEF OpToRel
<1> HIDE DEF R
<1>3. PICK x \in T : \A y \in T : ~(<<y, x>> \in R)
  BY <1>1, WFMin
<1>4. \A y \in T : y \in Nat /\ x \in Nat /\ ~(y < x)
  BY <1>2, <1>3
<1>5. \E n \in T : \A y \in T : n <= y
  BY <1>3, <1>4
<1> QED BY <1>5 DEF Min

(* What is taken off the front of a plan, and what is left of it.            *)
LEMMA FrontOfPlan ==
    ASSUME NEW S, NEW plan \in Seq(S), plan # << >>
    PROVE  /\ Head(plan) \in S /\ Head(plan) = plan[1] /\ 1 \in 1 .. Len(plan)
           /\ Tail(plan) \in Seq(S) /\ Len(Tail(plan)) = Len(plan) - 1 /\ Len(plan) \in Nat
           /\ \A i \in 1 .. Len(Tail(plan)) : Tail(plan)[i] = plan[i + 1] /\ i + 1 \in 1 .. Len(plan)
BY HeadTailProperties

(* A merge is of two rows.                                                   *)
LEMMA MergesAre ==
    ASSUME NEW S, NEW m \in Merges(S)
    PROVE  /\ m.from \in S /\ m.to \in S /\ m.from # m.to /\ m = [from |-> m.from, to |-> m.to]
           /\ \A T : m.from \in T /\ m.to \in T => m \in Merges(T)
BY DEF Merges

(* What findWingMerges returns.                                              *)
LEMMA PlanIs ==
    ASSUME Types, NEW plan \in WingPlans
    PROVE  /\ plan \in Seq(Merges(wings)) /\ plan \in Seq(Merges(WingIds))
           /\ \A i, j \in 1 .. Len(plan) : i < j =>
                plan[i].from # plan[j].from /\ plan[i].from # plan[j].to
<1>1. Cardinality(wings) \in Nat
  BY FS_CardinalityType DEF Types
<1>2. PICK n \in 0 .. Cardinality(wings) : plan \in [1 .. n -> Merges(wings)]
  BY DEF WingPlans
<1>3. plan \in Seq(Merges(wings)) /\ Len(plan) = n
  BY <1>1, <1>2
<1>4. Merges(wings) \subseteq Merges(WingIds)
  BY DEF Merges, Types
<1>5. plan \in [1 .. n -> Merges(WingIds)]
  BY <1>2, <1>4
<1>6. plan \in Seq(Merges(WingIds))
  BY <1>1, <1>5
<1> QED BY <1>2, <1>3, <1>6 DEF WingPlans

(* The rows of a merge's transaction, and nothing else, are forgotten with it. *)
LEMMA ForgottenMerge ==
    ASSUME merge \in MergeRecords
    PROVE  /\ NoMerge \in MergeRecords
           /\ NoMerge.at = "idle" /\ NoMerge.before = {} /\ NoMerge.wings = << >> /\ NoMerge.closets = {}
           /\ LET m == [NoMerge EXCEPT !.at = "wing", !.wings = merge.wings] IN
                /\ m \in MergeRecords /\ m.at = "wing" /\ m.before = {}
                /\ m.wings = merge.wings /\ m.closets = {}
           /\ LET m == [NoMerge EXCEPT !.at = "closet", !.closets = merge.closets] IN
                /\ m \in MergeRecords /\ m.at = "closet" /\ m.before = {}
                /\ m.wings = << >> /\ m.closets = merge.closets
<1>1. NoMerge \in MergeRecords
  <2>1. << >> \in Seq(Merges(WingIds))
    BY EmptySeq
  <2> QED BY <2>1 DEF NoMerge, MergeRecords
<1>2. NoMerge.at = "idle" /\ NoMerge.before = {} /\ NoMerge.wings = << >> /\ NoMerge.closets = {}
  BY DEF NoMerge
<1> QED BY <1>1, <1>2 DEF MergeRecords

(* A merge that ends before its time leaves the plan it was made from.       *)
LEMMA GivenUp ==
    ASSUME Types, \/ MergeFails \/ Crash \/ (NextCloset /\ merge' = NoMerge)
                  \/ (DeleteLoser \/ DeleteCloset)
    PROVE  /\ merge' \in MergeRecords /\ merge'.before = {}
           /\ \/ merge'.at = "idle" /\ merge'.wings = << >> /\ merge'.closets = {}
              \/ merge'.at = "wing" /\ merge'.wings = merge.wings /\ merge'.closets = {}
              \/ merge'.at = "closet" /\ merge'.wings = << >> /\ merge'.closets = merge.closets
<1>1. \/ merge' = NoMerge
      \/ merge' = [NoMerge EXCEPT !.at = "wing", !.wings = merge.wings]
      \/ merge' = [NoMerge EXCEPT !.at = "closet", !.closets = merge.closets]
  <2>1. CASE MergeFails
    BY <2>1 DEF MergeFails
  <2>2. CASE Crash
    BY <2>2 DEF Crash
  <2>3. CASE DeleteLoser
    BY <2>3 DEF DeleteLoser
  <2>4. CASE DeleteCloset
    BY <2>4 DEF DeleteCloset
  <2> QED BY <2>1, <2>2, <2>3, <2>4
<1> QED BY <1>1, ForgottenMerge DEF Types

-----------------------------------------------------------------------------
(* Types. *)

\* The calls that end an attempt.
AttemptEnds(c) ==
    /\ pc[c] # "idle"
    /\ \E status \in {"queued", "done", "failed"} : Ends(c, status)

LEMMA EndingSteps ==
    ASSUME NEW c \in Convs,
           Fail(c) \/ Finish(c) \/ WingIsTaken(c) \/ WingIsGone(c) \/ RoomIsGone(c) \/ ClosetIsGone(c)
    PROVE  AttemptEnds(c)
BY DEF AttemptEnds, Fail, Finish, WingIsTaken, WingIsGone, RoomIsGone, ClosetIsGone, Throws

(* Rows that are kept, moved or not, are rows.                               *)
LEMMA KeptRows ==
    ASSUME Types, NEW R, NEW C, NEW D,
           R \subseteq [id : RoomIds, wing : WingIds], C \subseteq closets,
           D \subseteq [id : DrawerIds, closet : ClosetIds], IsFiniteSet(D), Keep(R, C, D)
    PROVE  /\ rooms' \subseteq [id : RoomIds, wing : WingIds]
           /\ closets' \subseteq ClosetIds /\ IsFiniteSet(closets')
           /\ drawers' \subseteq [id : DrawerIds, closet : ClosetIds] /\ IsFiniteSet(drawers')
<1>1. closets' \subseteq closets /\ drawers' \subseteq D /\ rooms' = R
  BY DEF Keep
<1>2. IsFiniteSet(closets') /\ IsFiniteSet(drawers')
  BY <1>1, FS_Subset DEF Types
<1> QED BY <1>1, <1>2 DEF Types

(* The drawers of a closet that is merged go over to its twin.               *)
MovedDrawers == {[e EXCEPT !.closet = IF e.id \in merge.moved THEN merge.to ELSE @] : e \in drawers}

LEMMA DrawersAreMoved ==
    ASSUME Types, ClosetPlanInv, At("deleteCloset")
    PROVE  /\ MovedDrawers \subseteq [id : DrawerIds, closet : ClosetIds] /\ IsFiniteSet(MovedDrawers)
           /\ \A x \in MovedDrawers : \E e \in drawers :
                /\ x = [e EXCEPT !.closet = IF e.id \in merge.moved THEN merge.to ELSE @]
                /\ x.id = e.id /\ x.closet = IF e.id \in merge.moved THEN merge.to ELSE e.closet
           /\ \A e \in drawers : \E x \in MovedDrawers :
                x.id = e.id /\ x.closet = IF e.id \in merge.moved THEN merge.to ELSE e.closet
<1> DEFINE f(e) == [e EXCEPT !.closet = IF e.id \in merge.moved THEN merge.to ELSE @]
<1>1. merge.to \in ClosetIds
  BY DEF ClosetPlanInv, Types
<1>2. ASSUME NEW e \in drawers
      PROVE  /\ f(e) \in [id : DrawerIds, closet : ClosetIds] /\ f(e).id = e.id
             /\ f(e).closet = IF e.id \in merge.moved THEN merge.to ELSE e.closet
  BY <1>1 DEF Types
<1>3. MovedDrawers = {f(e) : e \in drawers}
  BY DEF MovedDrawers
<1>4. IsFiniteSet(MovedDrawers)
  <2> DEFINE F == [e \in drawers |-> f(e)]
  <2>1. F \in Surjection(drawers, MovedDrawers)
    <3> HIDE DEF f
    <3> QED BY <1>3 DEF Surjection
  <2> HIDE DEF F
  <2> QED BY <2>1, FS_Surjection DEF Types
<1> QED BY <1>2, <1>3, <1>4

LEMMA TypesStep == Types /\ PlanInv /\ ClosetPlanInv /\ (\A c \in Convs : MinerPlace(c)) /\ [Next]_vars => Types'
<1> SUFFICES ASSUME Types, PlanInv, ClosetPlanInv, \A c \in Convs : MinerPlace(c), [Next]_vars PROVE Types'
  OBVIOUS
<1> USE DEF Types, jobVars, palace, miner, history, Goto
<1>1. ASSUME NEW c \in Convs, Say(c) \/ Enqueue(c) \/ Claim(c) PROVE Types'
  BY <1>1 DEF Say, Enqueue, Claim
<1>2. ASSUME NEW c \in Convs, AttemptEnds(c) PROVE Types'
  BY <1>2 DEF AttemptEnds, Ends
<1>3. ASSUME NEW c \in Convs, ReadMessages(c) PROVE Types'
  <2>1. {k \in 1 .. messages[c] : ~Mined(c, k)} \subseteq Nat
    OBVIOUS
  <2> QED BY <1>3, <2>1 DEF ReadMessages
<1>4. ASSUME NEW c \in Convs, FindWing(c) PROVE Types'
  <2>1. \A n \in Names : <<n, born[n] + 1>> \in WingIds
    BY DEF WingIds
  <2> QED BY <1>4, <2>1 DEF FindWing
<1>5. ASSUME NEW c \in Convs, InsertWing(c) PROVE Types'
  <2>1. wing[c] \in WingIds /\ wing[c][1] \in Names
    BY <1>5 DEF InsertWing, MinerPlace, WingIds
  <2>2. born' \in [Names -> Nat]
    BY <1>5, <2>1 DEF InsertWing
  <2>3. <<wing[c][1], born'[wing[c][1]]>> \in WingIds
    BY <2>1, <2>2 DEF WingIds
  <2>4. wing' = [wing EXCEPT ![c] = <<wing[c][1], born'[wing[c][1]]>>]
    BY <1>5 DEF InsertWing
  <2>5. wing' \in [Convs -> WingIds \cup {NoRow}] /\ wing'[c] \in WingIds
    BY <2>3, <2>4
  <2>6. IsFiniteSet(wings')
    BY <1>5, FS_AddElement DEF InsertWing
  <2> QED BY <1>5, <2>2, <2>5, <2>6 DEF InsertWing
<1>6. ASSUME NEW c \in Convs, GetRoom(c) PROVE Types'
  <2>1. wing[c] \in WingIds
    BY <1>6 DEF GetRoom, MinerPlace
  <2>2. /\ <<wing[c], c>> \in RoomIds
        /\ [id |-> <<wing[c], c>>, wing |-> wing[c]] \in [id : RoomIds, wing : WingIds]
    BY <2>1 DEF RoomIds
  <2> QED BY <1>6, <2>2 DEF GetRoom
<1>7. ASSUME NEW c \in Convs, GetCloset(c) PROVE Types'
  <2>1. PICK t \in Topics :
             /\ closets' = IF t \in cache[c] THEN closets ELSE closets \cup {Closet(c, t)}
             /\ cache' = [cache EXCEPT ![c] = @ \cup {t}] /\ topic' = [topic EXCEPT ![c] = t]
    BY <1>7 DEF GetCloset
  <2>2. Closet(c, t) \in ClosetIds
    BY <1>7 DEF GetCloset, MinerPlace, Closet, ClosetIds
  <2>3. IsFiniteSet(closets')
    BY <2>1, FS_AddElement
  <2> QED BY <1>7, <2>1, <2>2, <2>3 DEF GetCloset
<1>8. ASSUME NEW c \in Convs, InsertDrawer(c) PROVE Types'
  <2>1. turns[c] # {} /\ turns[c] \subseteq Nat /\ topic[c] \in Topics /\ room[c] \in RoomIds
    BY <1>8 DEF InsertDrawer, MinerPlace
  <2>2. Min(turns[c]) \in Nat
    BY <2>1, LeastIsThere
  <2> DEFINE new == [id |-> <<c, Min(turns[c]), attempts[c]>>, closet |-> Closet(c, topic[c])]
  <2>3. new \in [id : DrawerIds, closet : ClosetIds]
    BY <2>1, <2>2 DEF DrawerIds, ClosetIds, Closet
  <2> HIDE DEF new
  <2>4. drawers' = drawers \cup {new}
    BY <1>8 DEF InsertDrawer, new
  <2>5. IsFiniteSet(drawers')
    BY <2>4, FS_AddElement
  <2> QED BY <1>8, <2>3, <2>4, <2>5 DEF InsertDrawer
<1>9. CASE Reorganize \/ MoveRooms \/ MoveDrawers \/ MergeFails \/ Crash
  <2>1. Ids({r \in rooms : r.wing = merge.from}) \subseteq RoomIds
    BY DEF Ids
  <2>2. Ids(drawers) \subseteq DrawerIds /\ Ids(DrawersIn(merge.from)) \subseteq DrawerIds
    BY DEF Ids, DrawersIn
  <2>3. CASE Reorganize
    BY <2>3 DEF Reorganize, MergeRecords
  <2>4. CASE MoveRooms
    BY <2>1, <2>2, <2>4 DEF MoveRooms, MergeRecords
  <2>5. CASE MoveDrawers
    BY <2>2, <2>5 DEF MoveDrawers, MergeRecords
  <2>6. CASE MergeFails
    BY <2>6, GivenUp DEF MergeFails
  <2>7. CASE Crash
    BY <2>7, GivenUp DEF Crash
  <2> QED BY <1>9, <2>3, <2>4, <2>5, <2>6, <2>7
<1>10. CASE FindWingMerges
  <2>1. PICK plan \in WingPlans : merge' = [merge EXCEPT !.at = "wing", !.wings = plan]
    BY <1>10 DEF FindWingMerges
  <2>2. plan \in Seq(Merges(WingIds))
    BY PlanIs
  <2>3. merge' \in MergeRecords
    BY <2>1, <2>2 DEF MergeRecords
  <2> QED BY <1>10, <2>3 DEF FindWingMerges
<1>17. CASE NextWing
  <2>1. CASE merge' = [merge EXCEPT !.at = "closets"]
    BY <1>17, <2>1 DEF NextWing, MergeRecords
  <2>2. CASE /\ merge.wings # << >>
             /\ merge' = [merge EXCEPT !.at = "moveRooms", !.wings = Tail(@),
                                       !.from = Head(merge.wings).from, !.to = Head(merge.wings).to]
    <3>1. Head(merge.wings) \in Merges(WingIds) /\ Tail(merge.wings) \in Seq(Merges(WingIds))
      BY <2>2, FrontOfPlan DEF MergeRecords
    <3>2. Head(merge.wings).from \in WingIds /\ Head(merge.wings).to \in WingIds
      BY <3>1, MergesAre
    <3>3. merge' \in MergeRecords
      BY <2>2, <3>1, <3>2 DEF MergeRecords
    <3> QED BY <1>17, <3>3 DEF NextWing
  <2> QED BY <1>17, <2>1, <2>2 DEF NextWing
<1>11. CASE FindClosetMerges
  <2>1. \A w : {m \in Merges(closets) : m.to = w[m.from]} \subseteq Merges(ClosetIds)
    BY DEF Merges
  <2>2. PICK w \in Winners :
             merge' = [merge EXCEPT !.at = "closet", !.closets = {m \in Merges(closets) : m.to = w[m.from]}]
    BY <1>11 DEF FindClosetMerges
  <2>3. merge' \in MergeRecords
    BY <2>1, <2>2 DEF MergeRecords
  <2> QED BY <1>11, <2>3 DEF FindClosetMerges
<1>12. CASE NextCloset
  <2>1. \A m \in merge.closets : m.from \in ClosetIds /\ m.to \in ClosetIds
    BY MergesAre DEF MergeRecords
  <2>2. CASE merge' = NoMerge
    BY <1>12, <2>2, GivenUp DEF NextCloset
  <2>3. ASSUME NEW m \in merge.closets,
               merge' = [merge EXCEPT !.at = "moveDrawers", !.from = m.from, !.to = m.to, !.closets = @ \ {m}]
        PROVE  Types'
    BY <1>12, <2>1, <2>3 DEF NextCloset, MergeRecords
  <2> QED BY <1>12, <2>2, <2>3 DEF NextCloset
<1>13. CASE DeleteLoser
  <2> DEFINE R == {[r EXCEPT !.wing = IF r.id \in merge.moved THEN merge.to ELSE @] :
                     r \in {s \in rooms : s.id \in merge.moved \/ s.wing # merge.from}}
  <2>1. merge.to \in WingIds
    BY <1>13 DEF DeleteLoser, PlanInv, At
  <2>2. R \subseteq [id : RoomIds, wing : WingIds]
    BY <2>1
  <2>3. Keep(R, closets, drawers)
    BY <1>13 DEF DeleteLoser
  <2> HIDE DEF R
  <2>4. /\ rooms' \subseteq [id : RoomIds, wing : WingIds]
        /\ closets' \subseteq ClosetIds /\ IsFiniteSet(closets')
        /\ drawers' \subseteq [id : DrawerIds, closet : ClosetIds] /\ IsFiniteSet(drawers')
    BY <2>2, <2>3, KeptRows
  <2>5. IsFiniteSet(wings \ {merge.from})
    BY FS_RemoveElement
  <2> QED BY <1>13, <2>4, <2>5, GivenUp DEF DeleteLoser
<1>14. CASE DeleteCloset
  <2>1. Keep(rooms, closets \ {merge.from}, MovedDrawers) /\ At("deleteCloset")
    BY <1>14 DEF DeleteCloset, MovedDrawers
  <2>2. /\ rooms' \subseteq [id : RoomIds, wing : WingIds]
        /\ closets' \subseteq ClosetIds /\ IsFiniteSet(closets')
        /\ drawers' \subseteq [id : DrawerIds, closet : ClosetIds] /\ IsFiniteSet(drawers')
    BY <2>1, DrawersAreMoved, KeptRows
  <2> QED BY <1>14, <2>2, GivenUp DEF DeleteCloset
<1>15. ASSUME NEW d \in drawers, DeleteDrawer(d) PROVE Types'
  <2>1. IsFiniteSet(drawers \ {d})
    BY FS_RemoveElement
  <2> QED BY <1>15, <2>1 DEF DeleteDrawer
<1>16. CASE UNCHANGED vars
  BY <1>16 DEF vars
<1> QED BY <1>1, <1>2, <1>3, <1>4, <1>5, <1>6, <1>7, <1>8, <1>9, <1>10, <1>11, <1>12, <1>13, <1>14, <1>15,
        <1>16, <1>17, EndingSteps DEF Next, MineStep, MergeStep

-----------------------------------------------------------------------------
(* The miners. *)

LEMMA PlaceStep == Types /\ (\A c \in Convs : MinerPlace(c)) /\ [Next]_vars => \A c \in Convs : MinerPlace(c)'
<1> SUFFICES ASSUME Types, \A c \in Convs : MinerPlace(c), [Next]_vars, NEW b \in Convs PROVE MinerPlace(b)'
  OBVIOUS
<1> USE DEF Types, MinerPlace, jobVars, palace, miner, history, Goto
<1>1. ASSUME NEW c \in Convs, Say(c) \/ Enqueue(c) \/ Claim(c) PROVE MinerPlace(b)'
  BY <1>1 DEF Say, Enqueue, Claim
<1>2. ASSUME NEW c \in Convs, AttemptEnds(c) PROVE MinerPlace(b)'
  BY <1>2 DEF AttemptEnds, Ends
<1>3. ASSUME NEW c \in Convs, ReadMessages(c) PROVE MinerPlace(b)'
  BY <1>3 DEF ReadMessages
<1>4. ASSUME NEW c \in Convs, FindWing(c) PROVE MinerPlace(b)'
  <2>1. \A n \in Names : <<n, born[n] + 1>> \in WingIds
    BY DEF WingIds
  <2> QED BY <1>4, <2>1 DEF FindWing
<1>5. ASSUME NEW c \in Convs, InsertWing(c) PROVE MinerPlace(b)'
  <2>1. wing[c] \in WingIds /\ wing[c][1] \in Names
    BY <1>5 DEF InsertWing, WingIds
  <2>2. <<wing[c][1], born'[wing[c][1]]>> \in WingIds
    BY <1>5, <2>1 DEF InsertWing, WingIds
  <2>3. wing' = [wing EXCEPT ![c] = <<wing[c][1], born'[wing[c][1]]>>]
    BY <1>5 DEF InsertWing
  <2> QED BY <1>5, <2>2, <2>3 DEF InsertWing
<1>6. ASSUME NEW c \in Convs, GetRoom(c) PROVE MinerPlace(b)'
  <2>1. <<wing[c], c>> \in RoomIds
    BY <1>6 DEF GetRoom, RoomIds
  <2> QED BY <1>6, <2>1 DEF GetRoom
<1>7. ASSUME NEW c \in Convs, GetCloset(c) PROVE MinerPlace(b)'
  BY <1>7 DEF GetCloset
<1>8. ASSUME NEW c \in Convs, InsertDrawer(c) PROVE MinerPlace(b)'
  BY <1>8 DEF InsertDrawer
<1>9. ASSUME UNCHANGED <<job, miner>> PROVE MinerPlace(b)'
  BY <1>9
<1>10. CASE Reorganize \/ MergeStep \/ MergeFails
  BY <1>9, <1>10 DEF Reorganize, MergeStep, MergeFails, FindWingMerges, NextWing, MoveRooms, DeleteLoser,
                     FindClosetMerges, NextCloset, MoveDrawers, DeleteCloset
<1>11. ASSUME NEW d \in drawers, DeleteDrawer(d) PROVE MinerPlace(b)'
  BY <1>9, <1>11 DEF DeleteDrawer
<1>12. CASE UNCHANGED vars
  BY <1>9, <1>12 DEF vars
<1>13. CASE Crash
  BY <1>13 DEF Crash
<1> QED BY <1>1, <1>2, <1>3, <1>4, <1>5, <1>6, <1>7, <1>8, <1>10, <1>11, <1>12, <1>13, EndingSteps
        DEF Next, MineStep

\* No drawer has come, and none has become two.
NoneCame ==
    /\ \A x \in drawers' : \E d \in drawers : d.id = x.id
    /\ \A x, y \in drawers' : x.id = y.id => x = y

LEMMA OnlyMinersAdd ==
    ASSUME PalaceInv, [Next]_vars, \A c \in Convs : ~InsertDrawer(c)
    PROVE  NoneCame
<1>1. \A x, y \in drawers : x.id = y.id => x = y
  BY DEF PalaceInv, OnceInv, MinedOnce, MessageOf
<1>2. ASSUME drawers' \subseteq drawers PROVE NoneCame
  BY <1>1, <1>2 DEF NoneCame
<1>3. CASE DeleteLoser
  BY <1>2, <1>3 DEF DeleteLoser, Keep
<1>4. CASE DeleteCloset
  <2>1. drawers' \subseteq MovedDrawers /\ At("deleteCloset")
    BY <1>4 DEF DeleteCloset, Keep, MovedDrawers
  <2> QED BY <1>1, <2>1, DrawersAreMoved DEF NoneCame, PalaceInv
<1>5. ASSUME NEW d \in drawers, DeleteDrawer(d) PROVE NoneCame
  BY <1>2, <1>5 DEF DeleteDrawer
<1>6. ASSUME NEW c \in Convs, Say(c) \/ Enqueue(c) \/ MineStep(c) \/ Fail(c) PROVE NoneCame
  <2>1. drawers' = drawers
    BY <1>6 DEF palace, Say, Enqueue, MineStep, Claim, ReadMessages, FindWing, InsertWing, WingIsTaken, GetRoom,
                WingIsGone, GetCloset, RoomIsGone, ClosetIsGone, Finish, Fail, Throws, Ends
  <2> QED BY <1>2, <2>1
<1>7. CASE Reorganize \/ MergeFails \/ FindWingMerges \/ NextWing \/ MoveRooms
          \/ FindClosetMerges \/ NextCloset \/ MoveDrawers
  BY <1>2, <1>7 DEF palace, Reorganize, MergeFails, FindWingMerges, NextWing, MoveRooms,
                    FindClosetMerges, NextCloset, MoveDrawers
<1>8. CASE UNCHANGED vars
  BY <1>2, <1>8 DEF vars, palace
<1>9. CASE Crash
  BY <1>2, <1>9 DEF Crash, palace
<1> QED BY <1>3, <1>4, <1>5, <1>6, <1>7, <1>8, <1>9 DEF Next, MergeStep

(* Only the first read of an attempt gives a miner work, and only a claim    *)
(* makes the attempt another one.                                            *)
LEMMA WorkStep ==
    ASSUME PalaceInv, [Next]_vars, NEW c \in Convs
    PROVE  /\ ReadMessages(c) \/ turns'[c] \subseteq turns[c]
           /\ Claim(c) \/ (attempts'[c] = attempts[c] /\ (pc'[c] = "read" => pc[c] = "read"))
<1> USE DEF PalaceInv, Types, jobVars, palace, miner, history, Goto
<1>1. ASSUME NEW b \in Convs, Say(b) \/ Enqueue(b) \/ FindWing(b)
      PROVE  turns'[c] \subseteq turns[c] /\ attempts'[c] = attempts[c] /\ (pc'[c] = "read" => pc[c] = "read")
  BY <1>1 DEF Say, Enqueue, FindWing
<1>7. ASSUME NEW b \in Convs, InsertWing(b)
      PROVE  turns'[c] \subseteq turns[c] /\ attempts'[c] = attempts[c] /\ (pc'[c] = "read" => pc[c] = "read")
  BY <1>7 DEF InsertWing
<1>8. ASSUME NEW b \in Convs, Claim(b)
      PROVE  /\ turns'[c] \subseteq turns[c]
             /\ b # c => attempts'[c] = attempts[c] /\ (pc'[c] = "read" => pc[c] = "read")
  BY <1>8 DEF Claim
<1>9. ASSUME NEW b \in Convs, ReadMessages(b)
      PROVE  /\ b # c => turns'[c] \subseteq turns[c]
             /\ attempts'[c] = attempts[c] /\ (pc'[c] = "read" => pc[c] = "read")
  BY <1>9 DEF ReadMessages
<1>2. ASSUME NEW b \in Convs, AttemptEnds(b) \/ GetRoom(b) \/ GetCloset(b) \/ InsertDrawer(b)
      PROVE  turns'[c] \subseteq turns[c] /\ attempts'[c] = attempts[c] /\ (pc'[c] = "read" => pc[c] = "read")
  BY <1>2 DEF AttemptEnds, Ends, GetRoom, GetCloset, InsertDrawer
<1>3. ASSUME UNCHANGED miner, UNCHANGED attempts
      PROVE  turns'[c] \subseteq turns[c] /\ attempts'[c] = attempts[c] /\ (pc'[c] = "read" => pc[c] = "read")
  BY <1>3
<1>4. CASE Reorganize \/ MergeStep \/ MergeFails
  BY <1>3, <1>4 DEF Reorganize, MergeStep, MergeFails, FindWingMerges, NextWing, MoveRooms, DeleteLoser,
                    FindClosetMerges, NextCloset, MoveDrawers, DeleteCloset
<1>5. ASSUME NEW d \in drawers, DeleteDrawer(d)
      PROVE  UNCHANGED miner /\ UNCHANGED attempts
  BY <1>5 DEF DeleteDrawer
<1>6. CASE UNCHANGED vars
  BY <1>3, <1>6 DEF vars
<1>10. CASE Crash
  BY <1>10 DEF Crash
<1> QED BY <1>1, <1>2, <1>3, <1>4, <1>5, <1>6, <1>7, <1>8, <1>9, <1>10, EndingSteps DEF Next, MineStep

(* The drawer that a miner adds is of a message that had none.               *)
LEMMA NewDrawer ==
    ASSUME PalaceInv, NEW c \in Convs, InsertDrawer(c)
    PROVE  \E k \in turns[c] :
             /\ k \in Nat /\ turns'[c] = turns[c] \ {k} /\ \A b \in Convs \ {c} : turns'[b] = turns[b]
             /\ Closet(c, topic[c]) \in closets
             /\ drawers' = drawers \cup {[id |-> <<c, k, attempts[c]>>, closet |-> Closet(c, topic[c])]}
             /\ pc[c] = "drawer" /\ pc'[c] # "read" /\ \A b \in Convs \ {c} : pc'[b] = pc[b]
             /\ UNCHANGED <<attempts, wings, rooms, closets, merge>>
<1>1. turns[c] # {} /\ turns[c] \subseteq Nat
  BY DEF InsertDrawer, PalaceInv, Types, MinerPlace
<1>2. Min(turns[c]) \in turns[c]
  BY <1>1, LeastIsThere
<1> QED BY <1>1, <1>2 DEF InsertDrawer, PalaceInv, Types, Goto, jobVars

LEMMA OnceStep == PalaceInv /\ Types' /\ [Next]_vars => OnceInv'
<1> SUFFICES ASSUME PalaceInv, Types', [Next]_vars PROVE OnceInv'
  OBVIOUS
<1>0. OnceInv /\ Types
  BY DEF PalaceInv
<1>1. CASE \A c \in Convs : ~InsertDrawer(c)
  <2>1. NoneCame
    BY <1>1, OnlyMinersAdd
  <2>2. MinedOnce'
    BY <1>0, <2>1 DEF NoneCame, OnceInv, MinedOnce, MessageOf
  <2>3. ASSUME NEW c \in Convs, NEW k \in turns'[c] PROVE ~Mined(c, k)'
    <3>1. Mined(c, k)' => Mined(c, k)
      BY <2>1 DEF NoneCame, Mined, MessageOf
    <3>2. CASE turns'[c] \subseteq turns[c]
      BY <1>0, <2>3, <3>1, <3>2 DEF OnceInv
    <3>3. CASE ReadMessages(c)
      BY <1>0, <2>3, <3>1, <3>3 DEF ReadMessages, Types
    <3> QED BY <3>2, <3>3, WorkStep
  <2> QED BY <2>2, <2>3 DEF OnceInv
<1>2. ASSUME NEW c \in Convs, InsertDrawer(c) PROVE OnceInv'
  <2>1. PICK k \in turns[c] :
             /\ turns'[c] = turns[c] \ {k} /\ \A b \in Convs \ {c} : turns'[b] = turns[b]
             /\ drawers' = drawers \cup {[id |-> <<c, k, attempts[c]>>, closet |-> Closet(c, topic[c])]}
    BY <1>2, NewDrawer
  <2>2. \A d \in drawers : MessageOf(d) # <<c, k>>
    BY <1>0 DEF OnceInv, Mined
  <2>3. \A x \in drawers' : x \in drawers \/ MessageOf(x) = <<c, k>>
    BY <2>1 DEF MessageOf
  <2>4. MinedOnce'
    BY <1>0, <2>1, <2>2, <2>3 DEF OnceInv, MinedOnce, MessageOf
  <2>5. ASSUME NEW b \in Convs, NEW j \in turns'[b] PROVE ~Mined(b, j)'
    <3>1. j \in turns[b] /\ <<b, j>> # <<c, k>>
      BY <2>1, <2>5
    <3> QED BY <1>0, <2>3, <3>1 DEF OnceInv, Mined, MessageOf
  <2> QED BY <2>4, <2>5 DEF OnceInv
<1> QED BY <1>1, <1>2

LEMMA FreshStep == PalaceInv /\ Types' /\ [Next]_vars => NamesAreFresh'
<1> SUFFICES ASSUME PalaceInv, Types', [Next]_vars PROVE NamesAreFresh'
  OBVIOUS
<1>0. Types /\ NamesAreFresh
  BY DEF PalaceInv
<1>1. ASSUME NEW i \in Ids(drawers) \cup merge.before
      PROVE  /\ i[3] <= attempts'[i[1]]
             /\ i[3] = attempts'[i[1]] => pc'[i[1]] # "read" /\ i[2] \notin turns'[i[1]]
  <2>0. i \in DrawerIds /\ i[1] \in Convs /\ i[3] \in Nat
    BY <1>0, <1>1 DEF Types, MergeRecords, Ids, DrawerIds
  <2>1. CASE Claim(i[1])
    BY <1>0, <2>0, <2>1 DEF Claim, Types, NamesAreFresh
  <2>2. CASE ReadMessages(i[1])
    <3>1. i[3] < attempts[i[1]] /\ attempts' = attempts
      BY <1>0, <2>0, <2>2 DEF ReadMessages, Types, NamesAreFresh, jobVars
    <3> QED BY <1>0, <2>0, <3>1 DEF Types
  <2>3. CASE ~Claim(i[1]) /\ ~ReadMessages(i[1])
    BY <1>0, <2>0, <2>3, WorkStep DEF NamesAreFresh
  <2> QED BY <2>1, <2>2, <2>3
<1>2. merge'.before \subseteq Ids(drawers) \cup merge.before
  <2> USE <1>0 DEF Types, Ids
  <2>1. CASE Reorganize \/ FindWingMerges \/ NextWing \/ FindClosetMerges
    <3>1. merge'.before = merge.before
      <4> USE DEF MergeRecords
      <4>1. CASE Reorganize
        BY <4>1 DEF Reorganize
      <4>2. CASE FindWingMerges
        BY <4>2 DEF FindWingMerges
      <4>3. CASE NextWing
        BY <4>3 DEF NextWing
      <4>4. CASE FindClosetMerges
        BY <4>4 DEF FindClosetMerges
      <4> QED BY <2>1, <4>1, <4>2, <4>3, <4>4
    <3> QED BY <3>1
  <2>8. CASE MergeFails \/ DeleteLoser \/ DeleteCloset \/ Crash
    <3>1. merge'.before = {}
      BY <2>8, GivenUp
    <3> QED BY <3>1
  <2>9. CASE NextCloset
    <3>1. CASE merge' = NoMerge
      BY <2>9, <3>1, GivenUp
    <3>2. ASSUME NEW m \in merge.closets,
                 merge' = [merge EXCEPT !.at = "moveDrawers", !.from = m.from, !.to = m.to, !.closets = @ \ {m}]
          PROVE  merge'.before = merge.before
      BY <3>2 DEF MergeRecords
    <3> QED BY <2>9, <3>1, <3>2 DEF NextCloset
  <2>2. CASE MoveRooms \/ MoveDrawers
    BY <2>2 DEF MoveRooms, MoveDrawers, MergeRecords
  <2>5. ASSUME NEW c \in Convs, Say(c) \/ Enqueue(c) \/ MineStep(c) \/ Fail(c) PROVE merge' = merge
    BY <2>5 DEF Say, Enqueue, MineStep, Claim, ReadMessages, FindWing, InsertWing, WingIsTaken, GetRoom, InsertDrawer,
                WingIsGone, GetCloset, RoomIsGone, ClosetIsGone, Finish, Fail, Throws, Ends
  <2>6. ASSUME NEW d \in drawers, DeleteDrawer(d) PROVE merge' = merge
    BY <2>6 DEF DeleteDrawer
  <2>7. CASE UNCHANGED vars
    BY <2>7 DEF vars
  <2> QED BY <2>1, <2>2, <2>5, <2>6, <2>7, <2>8, <2>9 DEF Next, MergeStep
<1>3. CASE \A c \in Convs : ~InsertDrawer(c)
  <2>1. Ids(drawers') \subseteq Ids(drawers)
    BY <1>3, OnlyMinersAdd DEF NoneCame, Ids
  <2> QED BY <1>1, <1>2, <2>1 DEF NamesAreFresh, Ids
<1>4. ASSUME NEW c \in Convs, InsertDrawer(c) PROVE NamesAreFresh'
  <2>1. PICK k \in turns[c] :
             /\ turns'[c] = turns[c] \ {k}
             /\ drawers' = drawers \cup {[id |-> <<c, k, attempts[c]>>, closet |-> Closet(c, topic[c])]}
             /\ pc'[c] # "read" /\ attempts' = attempts
    BY <1>4, NewDrawer
  <2>2. \A i \in Ids(drawers') : i \in Ids(drawers) \/ i = <<c, k, attempts[c]>>
    BY <2>1 DEF Ids
  <2>3. attempts[c] \in Nat
    BY <1>0 DEF Types
  <2> QED BY <1>1, <1>2, <2>1, <2>2, <2>3 DEF NamesAreFresh, Ids
<1> QED BY <1>3, <1>4

-----------------------------------------------------------------------------
(* Rows below others, and merges. *)

LEMMA BelowStep == PalaceInv /\ [Next]_vars => BelowStands'
<1> SUFFICES ASSUME PalaceInv, [Next]_vars PROVE BelowStands'
  OBVIOUS
<1>0. BelowStands /\ Types /\ PlanInv
  BY DEF PalaceInv
<1>1. ASSUME UNCHANGED drawers, closets \subseteq closets', \A cl \in closets' : cl[1] \in Ids(rooms'),
             \A r \in rooms' : r.wing \in wings'
      PROVE  BelowStands'
  BY <1>0, <1>1 DEF BelowStands
<1>2. ASSUME UNCHANGED <<rooms, closets, drawers>>, wings \subseteq wings' PROVE BelowStands'
  BY <1>0, <1>2 DEF BelowStands, Ids
<1>3. ASSUME NEW R, NEW C, NEW D, Keep(R, C, D), \A r \in R : r.wing \in wings' PROVE BelowStands'
  BY <1>3 DEF Keep, BelowStands, Ids
<1>4. ASSUME NEW c \in Convs, GetRoom(c) PROVE BelowStands'
  <2>1. /\ rooms \subseteq rooms' /\ UNCHANGED <<wings, closets, drawers>>
        /\ \A r \in rooms' : r \in rooms \/ r.wing \in wings
    BY <1>4 DEF GetRoom
  <2>2. Ids(rooms) \subseteq Ids(rooms')
    BY <2>1 DEF Ids
  <2> QED BY <1>0, <1>1, <2>1, <2>2 DEF BelowStands
<1>5. ASSUME NEW c \in Convs, GetCloset(c) PROVE BelowStands'
  <2>1. PICK t \in Topics :
             /\ t \in cache[c] \/ room[c] \in Ids(rooms)
             /\ closets' = IF t \in cache[c] THEN closets ELSE closets \cup {Closet(c, t)}
    BY <1>5 DEF GetCloset
  <2>2. UNCHANGED <<wings, rooms, drawers>>
    BY <1>5 DEF GetCloset
  <2>3. Closet(c, t)[1] = room[c]
    BY DEF Closet
  <2> QED BY <1>0, <2>1, <2>2, <2>3 DEF BelowStands, Ids
<1>6. ASSUME NEW c \in Convs, InsertDrawer(c) PROVE BelowStands'
  <2>1. PICK k \in turns[c] :
             /\ Closet(c, topic[c]) \in closets /\ UNCHANGED <<wings, rooms, closets>>
             /\ drawers' = drawers \cup {[id |-> <<c, k, attempts[c]>>, closet |-> Closet(c, topic[c])]}
    BY <1>6, NewDrawer
  <2> QED BY <1>0, <2>1 DEF BelowStands, Ids
<1>7. ASSUME NEW c \in Convs, AttemptEnds(c) PROVE BelowStands'
  BY <1>2, <1>7 DEF AttemptEnds, Ends, palace
<1>8. ASSUME NEW c \in Convs,
             Say(c) \/ Enqueue(c) \/ Claim(c) \/ ReadMessages(c) \/ FindWing(c) \/ InsertWing(c)
      PROVE  BelowStands'
  BY <1>2, <1>8 DEF palace, Say, Enqueue, Claim, ReadMessages, FindWing, InsertWing
<1>9. CASE \/ Reorganize \/ MergeFails \/ FindWingMerges \/ NextWing \/ MoveRooms
           \/ FindClosetMerges \/ NextCloset \/ MoveDrawers \/ Crash
  BY <1>2, <1>9 DEF palace, Reorganize, MergeFails, FindWingMerges, NextWing, MoveRooms,
                    FindClosetMerges, NextCloset, MoveDrawers, Crash
<1>10. CASE DeleteLoser
  <2> DEFINE R == {[r EXCEPT !.wing = IF r.id \in merge.moved THEN merge.to ELSE @] :
                     r \in {s \in rooms : s.id \in merge.moved \/ s.wing # merge.from}}
  <2>1. Keep(R, closets, drawers) /\ wings' = wings \ {merge.from}
    BY <1>10 DEF DeleteLoser
  <2>2. merge.to \in wings \ {merge.from}
    BY <1>0, <1>10 DEF DeleteLoser, PlanInv, At
  <2>3. \A r \in R : r.wing \in wings'
    BY <1>0, <2>1, <2>2 DEF BelowStands, Types
  <2> HIDE DEF R
  <2> QED BY <1>3, <2>1, <2>3
<1>13. CASE DeleteCloset
  BY <1>0, <1>3, <1>13 DEF DeleteCloset, BelowStands
<1>11. ASSUME NEW d \in drawers, DeleteDrawer(d) PROVE BelowStands'
  BY <1>0, <1>11 DEF DeleteDrawer, BelowStands, Ids
<1>12. CASE UNCHANGED vars
  BY <1>2, <1>12 DEF vars, palace
<1> QED BY <1>4, <1>5, <1>6, <1>7, <1>8, <1>9, <1>10, <1>11, <1>12, <1>13, EndingSteps DEF Next, MineStep, MergeStep

\* The steps of everyone but the merge.
OthersStep ==
    \/ \E c \in Convs : Say(c) \/ Enqueue(c) \/ MineStep(c) \/ Fail(c)
    \/ \E d \in drawers : DeleteDrawer(d)
    \/ UNCHANGED vars

(* Whoever is not the merge takes no wing, room or closet from under it, and *)
(* adds no drawer that it could take for one it has seen.                    *)
LEMMA OthersOnlyAdd ==
    ASSUME PalaceInv, OthersStep
    PROVE  /\ merge' = merge /\ wings \subseteq wings' /\ rooms \subseteq rooms' /\ closets \subseteq closets'
           /\ \A d \in drawers' : d \in drawers \/ d.id \notin merge.before
<1> DEFINE Goal ==
             /\ merge' = merge /\ wings \subseteq wings' /\ rooms \subseteq rooms' /\ closets \subseteq closets'
             /\ \A d \in drawers' : d \in drawers \/ d.id \notin merge.before
<1>1. ASSUME NEW c \in Convs, InsertDrawer(c) PROVE Goal
  <2>1. PICK k \in turns[c] :
             /\ UNCHANGED <<wings, rooms, closets, merge>>
             /\ drawers' = drawers \cup {[id |-> <<c, k, attempts[c]>>, closet |-> Closet(c, topic[c])]}
    BY <1>1, NewDrawer
  <2>2. <<c, k, attempts[c]>> \notin merge.before
    BY DEF PalaceInv, NamesAreFresh
  <2> QED BY <2>1, <2>2
<1>2. ASSUME NEW c \in Convs, GetRoom(c) \/ GetCloset(c) PROVE Goal
  BY <1>2 DEF GetRoom, GetCloset
<1>3. ASSUME NEW c \in Convs, AttemptEnds(c) PROVE Goal
  BY <1>3 DEF AttemptEnds, Ends, palace
<1>4. ASSUME NEW c \in Convs,
             Say(c) \/ Enqueue(c) \/ Claim(c) \/ ReadMessages(c) \/ FindWing(c) \/ InsertWing(c)
      PROVE  Goal
  BY <1>4 DEF palace, Say, Enqueue, Claim, ReadMessages, FindWing, InsertWing
<1>5. ASSUME NEW d \in drawers, DeleteDrawer(d) PROVE Goal
  BY <1>5 DEF DeleteDrawer
<1>6. CASE UNCHANGED vars
  BY <1>6 DEF vars, palace
<1> QED BY <1>1, <1>2, <1>3, <1>4, <1>5, <1>6, EndingSteps DEF OthersStep, MineStep

(* The merges of wings to come.                                              *)
LEMMA PlanStep == PalaceInv /\ [Next]_vars => PlanInv'
<1> SUFFICES ASSUME PalaceInv, [Next]_vars PROVE PlanInv'
  OBVIOUS
<1>0. Types /\ PlanInv
  BY DEF PalaceInv
<1>1. ASSUME merge'.wings = merge.wings, wings \subseteq wings', merge'.at \notin {"moveRooms", "deleteWing"}
      PROVE  PlanInv'
  BY <1>0, <1>1, MergesAre DEF PlanInv, At
<1>2. ASSUME merge'.wings = << >>, merge'.at \notin {"moveRooms", "deleteWing"} PROVE PlanInv'
  BY <1>2 DEF PlanInv, At
<1>3. CASE OthersStep
  <2>1. merge' = merge /\ wings \subseteq wings'
    BY <1>3, OthersOnlyAdd
  <2>2. \A i \in 1 .. Len(merge.wings) : merge.wings[i] \in Merges(wings')
    BY <1>0, <2>1, MergesAre DEF PlanInv
  <2> QED BY <1>0, <2>1, <2>2 DEF PlanInv, At
<1>4. CASE Reorganize \/ FindClosetMerges
  <2>1. merge'.wings = merge.wings /\ merge'.at \in {"wings", "closet"} /\ wings' = wings
    BY <1>0, <1>4 DEF Reorganize, FindClosetMerges, Types, MergeRecords, palace
  <2> QED BY <1>1, <2>1
<1>5. CASE FindWingMerges
  <2>1. PICK plan \in WingPlans : merge' = [merge EXCEPT !.at = "wing", !.wings = plan]
    BY <1>5 DEF FindWingMerges
  <2>2. merge'.wings = plan /\ merge'.at = "wing" /\ wings' = wings
    BY <1>0, <1>5, <2>1 DEF Types, MergeRecords, FindWingMerges, palace
  <2>3. /\ \A i \in 1 .. Len(plan) : plan[i] \in Merges(wings)
        /\ \A i, j \in 1 .. Len(plan) : i < j => plan[i].from # plan[j].from /\ plan[i].from # plan[j].to
    BY <1>0, PlanIs, ElementOfSeq
  <2> QED BY <2>2, <2>3 DEF PlanInv, At
<1>6. CASE NextWing
  <2>1. CASE merge' = [merge EXCEPT !.at = "closets"]
    BY <1>0, <1>1, <1>6, <2>1 DEF Types, MergeRecords, NextWing, palace
  <2>2. CASE /\ merge.wings # << >>
             /\ merge' = [merge EXCEPT !.at = "moveRooms", !.wings = Tail(@),
                                       !.from = Head(merge.wings).from, !.to = Head(merge.wings).to]
    <3> DEFINE w == merge.wings
    <3>1. /\ merge'.wings = Tail(w) /\ merge'.at = "moveRooms" /\ wings' = wings
          /\ merge'.from = w[1].from /\ merge'.to = w[1].to
      <4>1. Head(w) = w[1]
        BY <1>0, <2>2, FrontOfPlan DEF Types, MergeRecords
      <4> QED BY <1>0, <1>6, <2>2, <4>1 DEF Types, MergeRecords, NextWing, palace
    <3>2. /\ 1 \in 1 .. Len(w) /\ Len(w) \in Nat /\ Len(Tail(w)) = Len(w) - 1
          /\ \A i \in 1 .. Len(Tail(w)) : Tail(w)[i] = w[i + 1] /\ i + 1 \in 1 .. Len(w)
      BY <1>0, <2>2, FrontOfPlan DEF Types, MergeRecords
    <3>3. /\ \A i \in 1 .. Len(w) : w[i] \in Merges(wings)
          /\ \A i, j \in 1 .. Len(w) : i < j => w[i].from # w[j].from /\ w[i].from # w[j].to
      BY <1>0 DEF PlanInv
    <3>4. w[1].from \in wings /\ w[1].to \in wings /\ w[1].from # w[1].to
      BY <3>2, <3>3, MergesAre
    <3> HIDE DEF w
    <3>5. \A i \in 1 .. Len(Tail(w)) :
             /\ Tail(w)[i] \in Merges(wings)
             /\ w[1].from # Tail(w)[i].from /\ w[1].from # Tail(w)[i].to
      BY <3>2, <3>3
    <3>6. \A i, j \in 1 .. Len(Tail(w)) : i < j =>
             Tail(w)[i].from # Tail(w)[j].from /\ Tail(w)[i].from # Tail(w)[j].to
      <4> TAKE i, j \in 1 .. Len(Tail(w))
      <4>1. i < j => i + 1 < j + 1
        BY <3>2
      <4> QED BY <3>2, <3>3, <4>1
    <3> QED BY <3>1, <3>4, <3>5, <3>6 DEF PlanInv, At
  <2> QED BY <1>6, <2>1, <2>2 DEF NextWing
<1>7. CASE MoveRooms
  <2>1. /\ merge'.wings = merge.wings /\ merge.at = "moveRooms" /\ wings' = wings
        /\ merge'.from = merge.from /\ merge'.to = merge.to
    BY <1>0, <1>7 DEF MoveRooms, Types, MergeRecords, At, palace
  <2> QED BY <1>0, <2>1 DEF PlanInv, At
<1>8. CASE DeleteLoser
  <2>1. /\ merge'.wings = merge.wings /\ merge.at = "deleteWing" /\ merge'.at = "wing"
        /\ wings' = wings \ {merge.from}
    BY <1>8 DEF DeleteLoser, At, NoMerge
  <2>2. \A i \in 1 .. Len(merge.wings) : merge.wings[i] \in Merges(wings')
    <3> TAKE i \in 1 .. Len(merge.wings)
    <3>1. /\ merge.wings[i] \in Merges(wings)
          /\ merge.wings[i].from # merge.from /\ merge.wings[i].to # merge.from
      BY <1>0, <2>1 DEF PlanInv, At
    <3> QED BY <2>1, <3>1, MergesAre
  <2> QED BY <1>0, <2>1, <2>2 DEF PlanInv, At
<1>9. CASE NextCloset \/ MoveDrawers
  <2>1. CASE merge' = NoMerge
    BY <1>2, <2>1 DEF NoMerge
  <2>2. CASE merge' # NoMerge
    <3>1. merge'.wings = merge.wings /\ merge'.at \in {"moveDrawers", "deleteCloset"} /\ wings' = wings
      BY <1>0, <1>9, <2>2 DEF NextCloset, MoveDrawers, Types, MergeRecords, palace
    <3> QED BY <1>1, <3>1
  <2> QED BY <2>1, <2>2
<1>10. CASE DeleteCloset \/ Crash \/ MergeFails
  <2>1. wings' = wings
    BY <1>10 DEF DeleteCloset, Crash, MergeFails, palace
  <2>2. merge'.wings \in {merge.wings, << >>} /\ merge'.at \in {"idle", "wing", "closet"}
    BY <1>0, <1>10, GivenUp
  <2> QED BY <1>1, <1>2, <2>1, <2>2
<1> QED BY <1>3, <1>4, <1>5, <1>6, <1>7, <1>8, <1>9, <1>10 DEF Next, MergeStep, OthersStep

(* The merges of closets to come.                                            *)
LEMMA ClosetPlanStep == PalaceInv /\ [Next]_vars => ClosetPlanInv'
<1> SUFFICES ASSUME PalaceInv, [Next]_vars PROVE ClosetPlanInv'
  OBVIOUS
<1>0. Types /\ ClosetPlanInv /\ BelowStands
  BY DEF PalaceInv
<1>1. ASSUME merge'.closets = merge.closets, closets \subseteq closets',
             merge'.at \notin {"moveDrawers", "deleteCloset"}
      PROVE  ClosetPlanInv'
  BY <1>0, <1>1, MergesAre DEF ClosetPlanInv, At
<1>2. ASSUME merge'.closets = {}, merge'.at \notin {"moveDrawers", "deleteCloset"} PROVE ClosetPlanInv'
  BY <1>2 DEF ClosetPlanInv, At
<1>3. CASE OthersStep
  <2>1. merge' = merge /\ closets \subseteq closets'
    BY <1>3, OthersOnlyAdd
  <2>2. \A m \in merge.closets : m \in Merges(closets')
    BY <1>0, <2>1, MergesAre DEF ClosetPlanInv
  <2> QED BY <1>0, <2>1, <2>2 DEF ClosetPlanInv, At
<1>4. CASE Reorganize \/ FindWingMerges \/ NextWing \/ MoveRooms
  <2>1. /\ merge'.closets = merge.closets /\ closets' = closets
        /\ merge'.at \in {"wings", "wing", "closets", "moveRooms", "deleteWing"}
    BY <1>0, <1>4 DEF Reorganize, FindWingMerges, NextWing, MoveRooms, Types, MergeRecords, palace
  <2> QED BY <1>1, <2>1
<1>5. CASE DeleteLoser \/ Crash
  <2>1. merge' \in {NoMerge, [NoMerge EXCEPT !.at = "wing", !.wings = merge.wings]}
    <3>1. CASE DeleteLoser
      BY <3>1 DEF DeleteLoser
    <3>2. CASE Crash
      BY <3>2 DEF Crash
    <3> QED BY <1>5, <3>1, <3>2
  <2>2. merge'.closets = {} /\ merge'.at \in {"idle", "wing"}
    BY <1>0, <2>1, ForgottenMerge DEF Types
  <2> QED BY <1>2, <2>2
<1>6. CASE FindClosetMerges
  <2>1. PICK w \in Winners :
             merge' = [merge EXCEPT !.at = "closet", !.closets = {m \in Merges(closets) : m.to = w[m.from]}]
    BY <1>6 DEF FindClosetMerges
  <2>2. merge'.closets = {m \in Merges(closets) : m.to = w[m.from]} /\ merge'.at = "closet" /\ closets' = closets
    BY <1>0, <1>6, <2>1 DEF Types, MergeRecords, FindClosetMerges, palace
  <2>3. w \in [closets -> closets] /\ \A cl \in closets : w[w[cl]] = w[cl]
    BY DEF Winners
  <2>4. ASSUME NEW m \in merge'.closets, NEW n \in merge'.closets
        PROVE  m.to # n.from /\ (m.from = n.from => m = n)
    <3>1. /\ m \in Merges(closets) /\ m.to = w[m.from]
          /\ n \in Merges(closets) /\ n.to = w[n.from]
      BY <2>2, <2>4
    <3>2. /\ m.from \in closets /\ n.from # n.to
          /\ m = [from |-> m.from, to |-> m.to] /\ n = [from |-> n.from, to |-> n.to]
      BY <3>1, MergesAre
    <3> QED BY <2>3, <3>1, <3>2
  <2> QED BY <2>2, <2>4 DEF ClosetPlanInv, At
<1>7. CASE NextCloset
  <2>1. closets' = closets
    BY <1>7 DEF NextCloset, palace
  <2>2. CASE merge' = NoMerge
    BY <1>2, <2>2 DEF NoMerge
  <2>3. ASSUME NEW m \in merge.closets,
               merge' = [merge EXCEPT !.at = "moveDrawers", !.from = m.from, !.to = m.to, !.closets = @ \ {m}]
        PROVE  ClosetPlanInv'
    <3>1. merge'.closets = merge.closets \ {m} /\ merge'.from = m.from /\ merge'.to = m.to
      BY <1>0, <2>3 DEF Types, MergeRecords
    <3>2. m.from \in closets /\ m.to \in closets /\ m.from # m.to
      BY <1>0, MergesAre DEF ClosetPlanInv
    <3>3. \A n \in merge.closets \ {m} : m.from # n.from /\ m.from # n.to
      BY <1>0 DEF ClosetPlanInv
    <3> QED BY <1>0, <2>1, <3>1, <3>2, <3>3 DEF ClosetPlanInv
  <2> QED BY <1>7, <2>2, <2>3 DEF NextCloset
<1>8. CASE MoveDrawers
  <2>1. /\ merge'.closets = merge.closets /\ merge.at = "moveDrawers" /\ closets' = closets
        /\ merge'.from = merge.from /\ merge'.to = merge.to
    BY <1>0, <1>8 DEF MoveDrawers, Types, MergeRecords, At, palace
  <2> QED BY <1>0, <2>1 DEF ClosetPlanInv, At
<1>9. CASE DeleteCloset
  <2>1. merge'.closets = merge.closets /\ merge.at = "deleteCloset" /\ merge'.at = "closet"
    BY <1>9 DEF DeleteCloset, At, NoMerge
  <2>2. closets' = closets \ {merge.from}
    <3>1. closets' = {cl \in closets \ {merge.from} : cl[1] \in Ids(rooms)}
      BY <1>9 DEF DeleteCloset, Keep
    <3> QED BY <1>0, <3>1 DEF BelowStands
  <2>3. ASSUME NEW m \in merge.closets PROVE m \in Merges(closets')
    <3>1. m \in Merges(closets) /\ merge.from # m.from /\ merge.from # m.to
      BY <1>0, <2>1 DEF ClosetPlanInv, At
    <3> QED BY <2>2, <3>1, MergesAre
  <2> QED BY <1>0, <2>1, <2>3 DEF ClosetPlanInv, At
<1>10. CASE MergeFails
  <2>1. merge'.closets \in {merge.closets, {}} /\ merge'.at \in {"idle", "wing", "closet"}
    BY <1>0, <1>10, GivenUp
  <2>2. closets' = closets
    BY <1>10 DEF MergeFails, palace
  <2> QED BY <1>1, <1>2, <2>1, <2>2
<1> QED BY <1>3, <1>4, <1>5, <1>6, <1>7, <1>8, <1>9, <1>10 DEF Next, MergeStep, OthersStep

(* The drawers below what a merge is about to delete.                        *)
LEMMA MergeInvStep == PalaceInv /\ [Next]_vars => MergeInv'
<1> SUFFICES ASSUME PalaceInv, [Next]_vars PROVE MergeInv'
  OBVIOUS
<1>0. Types /\ BelowStands /\ MergeInv
  BY DEF PalaceInv
<1>1. CASE OthersStep
  <2>1. /\ merge' = merge /\ rooms \subseteq rooms'
        /\ \A d \in drawers' : d \in drawers \/ d.id \notin merge.before
    BY <1>1, OthersOnlyAdd
  <2> QED BY <1>0, <2>1 DEF MergeInv, At
<1>2. CASE \/ Reorganize \/ FindWingMerges \/ NextWing \/ DeleteLoser \/ FindClosetMerges
           \/ NextCloset \/ DeleteCloset \/ MergeFails \/ Crash
  <2>1. merge'.at \in {"idle", "wings", "wing", "moveRooms", "closets", "closet", "moveDrawers"}
    <3>1. CASE Reorganize \/ FindWingMerges \/ NextWing \/ FindClosetMerges
      BY <1>0, <3>1 DEF Reorganize, FindWingMerges, NextWing, FindClosetMerges, Types, MergeRecords
    <3>2. CASE DeleteLoser \/ DeleteCloset \/ MergeFails \/ Crash
      BY <1>0, <3>2, GivenUp
    <3>3. CASE NextCloset
      <4>1. CASE merge' = NoMerge
        BY <4>1 DEF NoMerge
      <4> QED BY <1>0, <3>3, <4>1 DEF NextCloset, Types, MergeRecords
    <3> QED BY <1>2, <3>1, <3>2, <3>3
  <2> QED BY <2>1 DEF MergeInv, At
<1>3. CASE MoveRooms
  <2>1. /\ UNCHANGED <<rooms, drawers>> /\ merge'.at = "deleteWing" /\ merge'.from = merge.from
        /\ merge'.moved = Ids({r \in rooms : r.wing = merge.from})
    BY <1>0, <1>3 DEF MoveRooms, Types, MergeRecords, palace
  <2>2. ASSUME NEW d \in drawers'
        PROVE  \E r \in rooms' : r.id = d.closet[1] /\ (r.id \in merge'.moved \/ r.wing # merge'.from)
    <3>1. PICK r \in rooms : r.id = d.closet[1]
      BY <1>0, <2>1, <2>2 DEF BelowStands, Ids
    <3> QED BY <2>1, <3>1 DEF Ids
  <2> QED BY <2>1, <2>2 DEF MergeInv, At
<1>4. CASE MoveDrawers
  <2>1. /\ UNCHANGED drawers /\ merge'.at = "deleteCloset" /\ merge'.from = merge.from
        /\ merge'.moved = Ids(DrawersIn(merge.from))
    BY <1>0, <1>4 DEF MoveDrawers, Types, MergeRecords, palace
  <2>2. \A d \in drawers' : d.id \in merge'.moved \/ d.closet # merge'.from
    BY <2>1 DEF Ids, DrawersIn
  <2> QED BY <2>1, <2>2 DEF MergeInv, At
<1> QED BY <1>1, <1>2, <1>3, <1>4 DEF Next, MergeStep, OthersStep

-----------------------------------------------------------------------------
(* The theorems. *)

LEMMA EmptyPalace == Init => PalaceInv
<1> SUFFICES ASSUME Init PROVE PalaceInv
  OBVIOUS
<1>1. merge = NoMerge /\ drawers = {} /\ closets = {} /\ rooms = {} /\ wings = {}
  BY DEF Init
<1>2. Types
  BY FS_EmptySet, EmptySeq DEF Init, Types, NoMerge, MergeRecords
<1>3. OnceInv /\ NamesAreFresh /\ BelowStands
  BY <1>1 DEF OnceInv, MinedOnce, Mined, NamesAreFresh, BelowStands, Ids, NoMerge, Init
<1>4. PlanInv /\ ClosetPlanInv /\ MergeInv
  BY <1>1 DEF PlanInv, ClosetPlanInv, MergeInv, At, NoMerge
<1>5. \A c \in Convs : MinerPlace(c)
  BY DEF Init, MinerPlace
<1> QED BY <1>2, <1>3, <1>4, <1>5 DEF PalaceInv

LEMMA PalaceStep == PalaceInv /\ [Next]_vars => PalaceInv'
<1> SUFFICES ASSUME PalaceInv, [Next]_vars PROVE PalaceInv'
  OBVIOUS
<1>1. Types' /\ \A c \in Convs : MinerPlace(c)'
  BY TypesStep, PlaceStep DEF PalaceInv
<1>2. OnceInv' /\ NamesAreFresh' /\ BelowStands' /\ PlanInv' /\ ClosetPlanInv' /\ MergeInv'
  BY <1>1, OnceStep, FreshStep, BelowStep, PlanStep, ClosetPlanStep, MergeInvStep
<1> QED BY <1>1, <1>2 DEF PalaceInv

LEMMA PalaceAlways == Spec => []PalaceInv
BY EmptyPalace, PalaceStep, PTL DEF Spec

\* However often the job of a conversation is retried, and whatever merges and deletions
\* come between or in the middle of its attempts, no message of it is in two drawers: an
\* attempt reads what is stored before it stores anything (memory.server.ts:42-53).
THEOREM MinedOnceAlways == Spec => []MinedOnce
<1>1. PalaceInv => MinedOnce
  BY DEF PalaceInv, OnceInv
<1> QED BY <1>1, PalaceAlways, PTL

(* One step takes only what it may.                                          *)
LEMMA StepKeepsDrawers ==
    ASSUME PalaceInv, [Next]_vars, NEW d \in drawers
    PROVE  \/ d.id \in Ids(drawers')
           \/ MessageOf(d) \in forgotten'
           \/ merge.at \in {"deleteWing", "deleteCloset"} /\ d.id \notin merge.before
<1> DEFINE Goal == \/ d.id \in Ids(drawers')
                   \/ MessageOf(d) \in forgotten'
                   \/ merge.at \in {"deleteWing", "deleteCloset"} /\ d.id \notin merge.before
<1>0. Types /\ BelowStands /\ ClosetPlanInv /\ MergeInv
  BY DEF PalaceInv
<1>1. ASSUME drawers \subseteq drawers' PROVE Goal
  BY <1>1 DEF Ids
<1>2. CASE DeleteLoser
  <2> DEFINE R == {[r EXCEPT !.wing = IF r.id \in merge.moved THEN merge.to ELSE @] :
                     r \in {s \in rooms : s.id \in merge.moved \/ s.wing # merge.from}}
  <2>1. Keep(R, closets, drawers) /\ merge.at = "deleteWing"
    BY <1>2 DEF DeleteLoser, At
  <2>2. ASSUME d.id \in merge.before PROVE d \in drawers'
    <3>1. PICK r \in rooms : r.id = d.closet[1] /\ (r.id \in merge.moved \/ r.wing # merge.from)
      BY <1>0, <2>1, <2>2 DEF MergeInv, At
    <3> DEFINE s == [r EXCEPT !.wing = IF r.id \in merge.moved THEN merge.to ELSE @]
    <3>2. s \in R /\ s.id = r.id
      BY <1>0, <3>1 DEF Types
    <3> HIDE DEF R, s
    <3>3. d.closet[1] \in Ids(R)
      BY <3>1, <3>2 DEF Ids
    <3> QED BY <1>0, <2>1, <3>3 DEF Keep, BelowStands
  <2> QED BY <2>1, <2>2 DEF Ids
<1>3. CASE DeleteCloset
  <2>1. Keep(rooms, closets \ {merge.from}, MovedDrawers) /\ At("deleteCloset")
    BY <1>3 DEF DeleteCloset, MovedDrawers
  <2>2. ASSUME d.id \in merge.before PROVE d.id \in Ids(drawers')
    <3>1. PICK x \in MovedDrawers :
               x.id = d.id /\ x.closet = IF d.id \in merge.moved THEN merge.to ELSE d.closet
      BY <1>0, <2>1, DrawersAreMoved
    <3>2. x.closet \in closets /\ x.closet # merge.from
      BY <1>0, <2>1, <2>2, <3>1 DEF MergeInv, ClosetPlanInv, BelowStands
    <3>3. x \in drawers'
      BY <1>0, <2>1, <3>2 DEF Keep, BelowStands
    <3> QED BY <3>1, <3>3 DEF Ids
  <2> QED BY <2>1, <2>2 DEF At
<1>4. ASSUME NEW e \in drawers, DeleteDrawer(e) PROVE Goal
  <2>1. drawers' = drawers \ {e} /\ MessageOf(e) \in forgotten'
    BY <1>4 DEF DeleteDrawer
  <2> QED BY <2>1 DEF Ids
<1>5. ASSUME NEW c \in Convs, InsertDrawer(c) PROVE drawers \subseteq drawers'
  BY <1>5 DEF InsertDrawer
<1>6. ASSUME NEW c \in Convs, AttemptEnds(c) PROVE drawers \subseteq drawers'
  BY <1>6 DEF AttemptEnds, Ends, palace
<1>7. ASSUME NEW c \in Convs,
             \/ Say(c) \/ Enqueue(c) \/ Claim(c) \/ ReadMessages(c) \/ FindWing(c) \/ InsertWing(c)
             \/ GetRoom(c) \/ GetCloset(c)
      PROVE  drawers \subseteq drawers'
  BY <1>7 DEF palace, Say, Enqueue, Claim, ReadMessages, FindWing, InsertWing, GetRoom, GetCloset
<1>8. CASE Reorganize \/ MergeFails \/ FindWingMerges \/ NextWing \/ MoveRooms
          \/ FindClosetMerges \/ NextCloset \/ MoveDrawers
  BY <1>1, <1>8 DEF palace, Reorganize, MergeFails, FindWingMerges, NextWing, MoveRooms,
                    FindClosetMerges, NextCloset, MoveDrawers
<1>9. CASE UNCHANGED vars \/ Crash
  BY <1>1, <1>9 DEF vars, palace, Crash
<1> QED BY <1>1, <1>2, <1>3, <1>4, <1>5, <1>6, <1>7, <1>8, <1>9, EndingSteps DEF Next, MineStep, MergeStep

\* The DELETE of a merge reaches, through the cascades, only drawers that came after the
\* UPDATE of the same transaction, however the miners put rooms, closets and drawers
\* in between; all other steps but the user's keep every drawer (reorganize.server.ts:282-326).
THEOREM DrawersOutliveMergesAlways == Spec => DrawersOutliveMerges
<1>1. PalaceInv /\ [Next]_vars =>
        [\A d \in drawers :
           \/ d.id \in Ids(drawers')
           \/ MessageOf(d) \in forgotten'
           \/ merge.at \in {"deleteWing", "deleteCloset"} /\ d.id \notin merge.before]_vars
  BY StepKeepsDrawers
<1> QED BY <1>1, PalaceAlways, PTL DEF Spec, DrawersOutliveMerges
=============================================================================
