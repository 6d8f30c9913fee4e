------------------------------ MODULE ResearchProofs ------------------------------
(***************************************************************************)
(* What research promises, proved for any runners, candidates, search      *)
(* plans and number of faults: runs that lost the pipeline lease go on     *)
(* writing, and the draft is right all the same.                           *)
(***************************************************************************)
EXTENDS Research, FiniteSetTheorems, WellFoundedInduction, TLAPS

(* The points of a runner that has nothing kept, has candidates to compare  *)
(* or judge, and has chosen one.                                            *)
Early == {"idle", "start", "feeds", "discover", "ask", "none"}
Late == {"release", "abandon", "done", "abandoned", "dead"}
Comparing == {"compare", "duplicate", "extract"}
Judging == {"judge", "block"}
Chosen == {"finish", "draft", "create"}

MemoryRecord ==
  [at : Working \cup {"idle", "done", "abandoned", "dead"}, tier : Nat,
   todo : Seq(Candidates), kept : Seq(Candidates),
   deduped : SUBSET Candidates, excluded : SUBSET Candidates,
   chosen : Candidates \cup {None}, seen : BOOLEAN, passed : BOOLEAN,
   lost : BOOLEAN]

TablesType ==
  /\ lease \in Runners \cup {None}
  /\ article \in [Candidates ->
       [status : {"absent", "discovered", "rejected", "drafted"},
        draftBy : Runners \cup {None}]]
  /\ decision \in [Candidates ->
       [relation : {"none", "passes", "duplicate", "uncertain"},
        by : Runners \cup {None}]]
  /\ DOMAIN searchRun = Runners
  /\ \A r \in Runners :
       searchRun[r] \in [1..LastTier[r] ->
         {"none", "running", "completed", "filtered", "failed"}]
  /\ researchFaults \in 0..MaxResearchFaults

(* A runner has one window after the other: those to come have no run yet.  *)
WindowInv(r) ==
  /\ runner[r].tier \in 1..LastTier[r]
  /\ \A t \in 1..LastTier[r] :
       t > runner[r].tier \/ (t = runner[r].tier /\ runner[r].at \in {"idle", "start"})
         => searchRun[r][t] = "none"

(* The recorded comparison of c lets it pass, or another run wrote over it. *)
Passed(r, c) ==
  \/ decision[c].relation = "passes"
  \/ decision[c].by \in Runners \ {r} /\ runner[decision[c].by].at # "idle"

(* What is kept was new; what of it is neither to be compared nor left out  *)
(* has passed, and what the policy left out was rejected.                   *)
KeptInv(r) ==
  LET m == runner[r]
  IN /\ IsInjective(m.kept)
     /\ m.at \in Early \cup Late \cup Chosen => m.kept = <<>> /\ m.excluded = {}
     /\ m.at = "persist" => IsInjective(m.todo) /\ ToSet(m.kept) \cap ToSet(m.todo) = {}
     /\ m.at \in Comparing => m.todo # <<>>
     /\ m.at = "fallback" => m.todo = <<>>
     /\ m.at \in Comparing \cup Judging \cup {"fallback"} =>
          /\ ToSet(m.todo) \subseteq ToSet(m.kept)
          /\ \A c \in ToSet(m.kept) \ (m.deduped \cup m.excluded) :
               c \notin ToSet(m.todo) => Passed(r, c)
     /\ m.at \in {"extract"} \cup Judging =>
          Subject(r) \in Candidates /\ Passed(r, Subject(r))
     /\ m.at \in Chosen => m.chosen \in Candidates /\ Passed(r, m.chosen)
     /\ \A c \in m.excluded : article[c].status = "rejected"

(* Whoever still holds a drafted article lost its lease to the draft's run. *)
DraftedInv(c) ==
  article[c].status = "drafted" =>
    /\ \A q \in Runners : c \in ToSet(runner[q].kept) =>
         q # article[c].draftBy /\ Overtaken(q)
    /\ article[c].draftBy \in Runners
    /\ \/ decision[c].relation = "passes"
       \/ decision[c].by # article[c].draftBy /\ Overtaken(decision[c].by)

ResearchInv ==
  /\ TablesType /\ DOMAIN runner = Runners
  /\ \A r \in Runners : runner[r] \in MemoryRecord /\ WindowInv(r) /\ KeptInv(r)
  /\ \A c \in Candidates : DraftedInv(c)

-----------------------------------------------------------------------------
(* Sequences of candidates *)

(* A set of places that is not empty has a least one, and Min is it.        *)
LEMMA LeastPlace ==
  ASSUME NEW S, S \subseteq Nat, S # {}
  PROVE  Min(S) \in S
<1>1. PICK x \in S : \A y \in S : ~ (<<y, x>> \in OpToRel(<, Nat))
  BY NatLessThanWellFounded, WFMin
<1>2. \A y \in S : ~ (y < x)
  BY <1>1, Zenon DEF OpToRel
<1>3. \A y \in S : x <= y
  BY <1>2
<1> QED BY <1>3 DEF Min

(* A list with an element is its first one and the rest, which does not     *)
(* hold it if the list names it once.                                       *)
LEMMA FirstAndRest ==
  ASSUME NEW S, NEW s \in Seq(S), s # <<>>
  PROVE  /\ Head(s) \in S /\ Tail(s) \in Seq(S) /\ Head(s) \in ToSet(s)
         /\ ToSet(Tail(s)) \subseteq ToSet(s)
         /\ \A c \in ToSet(s) : c = Head(s) \/ c \in ToSet(Tail(s))
         /\ IsInjective(s) => IsInjective(Tail(s)) /\ Head(s) \notin ToSet(Tail(s))
<1>1. /\ Len(s) \in Nat \ {0} /\ DOMAIN s = 1..Len(s) /\ Head(s) = s[1]
      /\ Tail(s) \in Seq(S) /\ Len(Tail(s)) = Len(s) - 1
      /\ DOMAIN Tail(s) = 1..(Len(s) - 1)
      /\ \A i \in 1..(Len(s) - 1) : Tail(s)[i] = s[i + 1]
  OBVIOUS
<1>2. \A i \in 1..(Len(s) - 1) : i + 1 \in 1..Len(s) /\ i + 1 # 1
  BY <1>1
<1>3. \A i \in 1..Len(s) : i # 1 => i - 1 \in 1..(Len(s) - 1) /\ (i - 1) + 1 = i
  BY <1>1
<1>4. Head(s) \in S /\ Head(s) \in ToSet(s)
  BY <1>1 DEF ToSet
<1>5. ToSet(Tail(s)) \subseteq ToSet(s)
  BY <1>1, <1>2 DEF ToSet
<1>6. \A c \in ToSet(s) : c = Head(s) \/ c \in ToSet(Tail(s))
  <2> SUFFICES ASSUME NEW i \in 1..Len(s), s[i] # Head(s)
               PROVE  s[i] \in ToSet(Tail(s))
    BY <1>1 DEF ToSet
  <2>1. i # 1
    BY <1>1
  <2> QED BY <1>1, <1>3, <2>1 DEF ToSet
<1>7. ASSUME IsInjective(s)
      PROVE  IsInjective(Tail(s)) /\ Head(s) \notin ToSet(Tail(s))
  <2>1. ASSUME NEW i \in 1..(Len(s) - 1), NEW j \in 1..(Len(s) - 1),
               Tail(s)[i] = Tail(s)[j]
        PROVE  i = j
    <3>1. i + 1 = j + 1
      BY <1>1, <1>2, <1>7, <2>1 DEF IsInjective
    <3> QED BY <1>1, <3>1
  <2>2. \A i \in 1..(Len(s) - 1) : Tail(s)[i] # Head(s)
    BY <1>1, <1>2, <1>7 DEF IsInjective
  <2> QED BY <1>1, <2>1, <2>2 DEF IsInjective, ToSet
<1> QED BY <1>1, <1>4, <1>5, <1>6, <1>7

(* What is appended to a list is in it, next to what was.                   *)
LEMMA OneMore ==
  ASSUME NEW S, NEW s \in Seq(S), NEW c \in S
  PROVE  /\ Append(s, c) \in Seq(S) /\ ToSet(Append(s, c)) = ToSet(s) \cup {c}
         /\ IsInjective(s) /\ c \notin ToSet(s) => IsInjective(Append(s, c))
<1>1. /\ Len(s) \in Nat /\ DOMAIN s = 1..Len(s) /\ Append(s, c) \in Seq(S)
      /\ DOMAIN Append(s, c) = 1..(Len(s) + 1)
      /\ \A i \in 1..Len(s) : Append(s, c)[i] = s[i]
      /\ Append(s, c)[Len(s) + 1] = c
  OBVIOUS
<1>2. \A i \in 1..(Len(s) + 1) : i \in 1..Len(s) \/ i = Len(s) + 1
  BY <1>1
<1>3. \A i \in 1..Len(s) : i \in 1..(Len(s) + 1) /\ i # Len(s) + 1
  BY <1>1
<1>4. Len(s) + 1 \in 1..(Len(s) + 1)
  BY <1>1
<1>5. ToSet(Append(s, c)) = ToSet(s) \cup {c}
  BY <1>1, <1>2, <1>3, <1>4 DEF ToSet
<1>6. ASSUME IsInjective(s), c \notin ToSet(s) PROVE IsInjective(Append(s, c))
  <2> SUFFICES ASSUME NEW i \in 1..(Len(s) + 1), NEW j \in 1..(Len(s) + 1),
                      Append(s, c)[i] = Append(s, c)[j]
               PROVE  i = j
    BY <1>1 DEF IsInjective
  <2>1. \A n \in 1..Len(s) : s[n] # c
    BY <1>1, <1>6 DEF ToSet
  <2> QED BY <1>1, <1>2, <1>6, <2>1 DEF IsInjective
<1> QED BY <1>1, <1>5, <1>6

(* The empty list holds nothing.                                            *)
LEMMA NoneIsThere == ToSet(<<>>) = {} /\ IsInjective(<<>>)
BY DEF ToSet, IsInjective

(* What arrives is ranked in some order.                                    *)
LEMMA Orders ==
  ASSUME NEW r \in Runners, NEW recent \in SUBSET Brings[r],
         NEW order \in SetToSeqs(recent)
  PROVE  order \in Seq(Candidates) /\ IsInjective(order)
<1>1. IsFiniteSet(recent) /\ recent \subseteq Candidates
  BY ResearchAssumption, FS_Subset
<1>2. Cardinality(recent) \in Nat
  BY <1>1, FS_CardinalityType
<1>3. /\ order \in [1..Cardinality(recent) -> recent]
      /\ \A i, j \in 1..Cardinality(recent) : i # j => order[i] # order[j]
  BY DEF SetToSeqs
<1> QED BY <1>1, <1>2, <1>3 DEF IsInjective

-----------------------------------------------------------------------------
(* A step of one runner *)

(* What the invariant says of one runner.                                   *)
LEMMA MemoryFacts ==
  ASSUME ResearchInv, NEW r \in Runners
  PROVE  /\ runner[r] \in MemoryRecord /\ WindowInv(r) /\ KeptInv(r)
         /\ runner[r].kept \in Seq(Candidates) /\ runner[r].todo \in Seq(Candidates)
         /\ runner[r].deduped \subseteq Candidates
         /\ runner[r].excluded \subseteq Candidates
         /\ runner[r].tier \in Nat /\ runner[r].lost \in BOOLEAN
         /\ runner[r].at \in Working \cup {"idle", "done", "abandoned", "dead"}
         /\ ToSet(runner[r].kept) \subseteq Candidates
         /\ r # None
<1>1. runner[r] \in MemoryRecord /\ WindowInv(r) /\ KeptInv(r)
  BY DEF ResearchInv
<1>2. \A s \in Seq(Candidates) : ToSet(s) \subseteq Candidates
  BY DEF ToSet
<1> QED BY <1>1, <1>2, ResearchAssumption DEF MemoryRecord

(* A step of one runner keeps the invariant if what it remembers afterwards *)
(* is true, and it changes articles, comparisons and its search runs in the *)
(* ways it may.                                                             *)
LEMMA StepKeeps ==
  ASSUME ResearchInv, NEW r \in Runners, NEW m \in MemoryRecord,
         runner' = [runner EXCEPT ![r] = m], m.at # "idle",
         lease' = lease \/ lease' = None \/ (lease' = r /\ runner[r].at = "idle"),
         TablesType',
         \A q \in Runners \ {r} : searchRun'[q] = searchRun[q],
         \A c \in Candidates :
           \/ article'[c] = article[c]
           \/ /\ article[c].status \in {"absent", "discovered"}
              /\ article'[c].status \in {"discovered", "rejected"},
         \A c \in Candidates :
           \/ decision'[c] = decision[c]
           \/ decision'[c].by = r /\ c \in ToSet(runner[r].kept),
         \A c \in ToSet(m.kept) :
           c \in ToSet(runner[r].kept) \/ article[c].status # "drafted",
         WindowInv(r)', KeptInv(r)'
  PROVE  ResearchInv'
<1>1. /\ DOMAIN runner' = Runners /\ runner'[r] = m
      /\ \A q \in Runners \ {r} : runner'[q] = runner[q]
      /\ \A q \in Runners : runner'[q] \in MemoryRecord
  BY DEF ResearchInv
<1>2. ASSUME NEW q \in Runners, Overtaken(q) PROVE Overtaken(q)'
  BY <1>1, <1>2, MemoryFacts DEF Overtaken
<1>3. ASSUME NEW q \in Runners \ {r} PROVE WindowInv(q)' /\ KeptInv(q)'
  <2>1. WindowInv(q)'
    BY <1>1, <1>3 DEF ResearchInv, WindowInv
  <2>2. ASSUME NEW c \in Candidates, Passed(q, c) PROVE Passed(q, c)'
    BY <1>1, <1>3, <2>2 DEF Passed
  <2>3. Subject(q)' = Subject(q)
    BY <1>1, <1>3 DEF Subject, FallbackCandidates
  <2>4. \A c \in runner[q].excluded : article'[c].status = "rejected"
    BY <1>3, MemoryFacts DEF KeptInv
  <2>5. KeptInv(q)
    BY <1>3 DEF ResearchInv
  <2>6. runner'[q] = runner[q] /\ ToSet(runner[q].kept) \subseteq Candidates
    BY <1>1, <1>3, MemoryFacts
  <2>7. KeptInv(q)'
    BY <2>2, <2>3, <2>4, <2>5, <2>6 DEF KeptInv
  <2> QED BY <2>1, <2>7
<1>4. ASSUME NEW c \in Candidates, article'[c].status = "drafted" PROVE DraftedInv(c)'
  <2>1. article'[c] = article[c] /\ DraftedInv(c) /\ article[c].status = "drafted"
    BY <1>4 DEF ResearchInv
  <2>2. ASSUME NEW q \in Runners, c \in ToSet(runner'[q].kept)
        PROVE  q # article[c].draftBy /\ Overtaken(q)'
    <3>1. c \in ToSet(runner[q].kept)
      BY <1>1, <2>1, <2>2
    <3> QED BY <1>2, <2>1, <3>1 DEF DraftedInv
  <2>3. \/ decision'[c].relation = "passes"
        \/ \E q \in Runners : /\ decision'[c].by = q /\ q # article[c].draftBy
                              /\ Overtaken(q)'
    <3>1. CASE decision'[c] = decision[c]
      BY <1>2, <2>1, <3>1 DEF DraftedInv, Overtaken
    <3>2. CASE decision'[c].by = r /\ c \in ToSet(runner[r].kept)
      BY <1>2, <2>1, <3>2 DEF DraftedInv
    <3> QED BY <3>1, <3>2
  <2>4. (\/ decision[c].relation = "passes"
         \/ decision[c].by # article[c].draftBy /\ Overtaken(decision[c].by))'
    BY <2>1, <2>3 DEF Overtaken
  <2> QED BY <2>1, <2>2, <2>4 DEF DraftedInv
<1>5. \A c \in Candidates : DraftedInv(c)'
  BY <1>4 DEF DraftedInv
<1> QED BY <1>1, <1>3, <1>5 DEF ResearchInv

(* What a search run becomes when it is closed.                             *)
LEMMA CloseFacts ==
  ASSUME ResearchInv, NEW r \in Runners,
         NEW status \in {"completed", "filtered", "failed"},
         Close(r, status) \/ UNCHANGED searchRun
  PROVE  /\ DOMAIN searchRun' = Runners
         /\ \A q \in Runners :
              searchRun'[q] \in [1..LastTier[q] ->
                {"none", "running", "completed", "filtered", "failed"}]
         /\ \A q \in Runners \ {r} : searchRun'[q] = searchRun[q]
         /\ \A t \in 1..LastTier[r] :
              /\ t # runner[r].tier => searchRun'[r][t] = searchRun[r][t]
              /\ searchRun'[r][t] = "filtered" =>
                   searchRun[r][t] = "filtered" \/ status = "filtered"
              /\ searchRun[r][t] \notin {"none", "running"} =>
                   searchRun'[r][t] = searchRun[r][t]
<1>1. /\ DOMAIN searchRun = Runners
      /\ \A q \in Runners :
           searchRun[q] \in [1..LastTier[q] ->
             {"none", "running", "completed", "filtered", "failed"}]
  BY DEF ResearchInv, TablesType
<1>2. CASE Close(r, status)
  <2>1. searchRun' = [searchRun EXCEPT ![r] = [searchRun[r] EXCEPT ![runner[r].tier] =
                        IF @ = "running" THEN status ELSE @]]
    BY <1>1, <1>2 DEF Close
  <2> QED BY <1>1, <2>1
<1>3. CASE UNCHANGED searchRun
  BY <1>1, <1>3
<1> QED BY <1>2, <1>3

(* Faults are counted up to their bound.                                    *)
LEMMA FaultFacts ==
  ASSUME ResearchInv, ResearchFault \/ UNCHANGED researchFaults
  PROVE  researchFaults' \in 0..MaxResearchFaults
BY ResearchAssumption DEF ResearchInv, TablesType, ResearchFault

(* The runner begins anew: another window, or no more of them.              *)
LEMMA FreshKeeps ==
  ASSUME ResearchInv, NEW r \in Runners, NEW point \in (Early \cup Late) \ {"idle"},
         NEW t \in 1..LastTier[r],
         runner' = [runner EXCEPT ![r] = Fresh(point, t, runner[r].lost)],
         lease' \in {lease, None}, UNCHANGED <<article, decision>>,
         TablesType', \A q \in Runners \ {r} : searchRun'[q] = searchRun[q],
         \A u \in 1..LastTier[r] :
           u > t \/ (u = t /\ point = "start") => searchRun'[r][u] = "none"
  PROVE  ResearchInv'
<1> DEFINE m == Fresh(point, t, runner[r].lost)
<1>1. /\ m.at = point /\ m.tier = t /\ m.kept = <<>> /\ m.todo = <<>>
      /\ m.excluded = {} /\ m.at # "idle"
  BY DEF Fresh
<1>2. m \in MemoryRecord
  <2>1. t \in Nat /\ runner[r].lost \in BOOLEAN
    BY ResearchAssumption, MemoryFacts
  <2>2. <<>> \in Seq(Candidates)
    OBVIOUS
  <2> QED BY <2>1, <2>2 DEF Fresh, MemoryRecord, Early, Late, Working, Searching
<1> HIDE DEF m
<1>3. runner' = [runner EXCEPT ![r] = m] /\ runner'[r] = m
  BY DEF m, ResearchInv
<1>4. TablesType'
  OBVIOUS
<1>5. WindowInv(r)'
  BY <1>1, <1>3 DEF WindowInv
<1>6. KeptInv(r)'
  BY <1>1, <1>3, NoneIsThere
     DEF KeptInv, Early, Late, Chosen, Comparing, Judging
<1>7. lease' = lease \/ lease' = None \/ (lease' = r /\ runner[r].at = "idle")
  OBVIOUS
<1>8. /\ \A c \in Candidates : article'[c] = article[c] /\ decision'[c] = decision[c]
      /\ \A c \in ToSet(m.kept) :
           c \in ToSet(runner[r].kept) \/ article[c].status # "drafted"
  BY <1>1, NoneIsThere
<1> QED BY <1>1, <1>2, <1>3, <1>4, <1>5, <1>6, <1>7, <1>8, StepKeeps

(* The calls that close a window without a candidate.                       *)
LEMMA ClosingKeeps ==
  ASSUME ResearchInv, NEW r \in Runners, runner[r].at \notin {"idle", "start"},
         NEW status \in {"completed", "filtered", "failed"},
         \/ NoCandidates(r, status)
         \/ Close(r, status) /\ Leave(r, "release") /\ UNCHANGED researchFaults
         \/ CloseFails(r, status),
         UNCHANGED <<lease, article, decision>>
  PROVE  ResearchInv'
<1>1. /\ runner[r].tier \in 1..LastTier[r] /\ LastTier[r] \in Nat \ {0}
      /\ \A u \in 1..LastTier[r] : u > runner[r].tier => searchRun[r][u] = "none"
  BY ResearchAssumption, MemoryFacts DEF WindowInv
<1>2. researchFaults' \in 0..MaxResearchFaults
  BY FaultFacts DEF NoCandidates, CloseFails
<1>3. PICK s \in {"completed", "filtered", "failed"} :
        Close(r, s) \/ UNCHANGED searchRun
  BY DEF NoCandidates, CloseFails
<1>4. /\ DOMAIN searchRun' = Runners
      /\ \A q \in Runners :
           searchRun'[q] \in [1..LastTier[q] ->
             {"none", "running", "completed", "filtered", "failed"}]
      /\ \A q \in Runners \ {r} : searchRun'[q] = searchRun[q]
      /\ \A u \in 1..LastTier[r] : u # runner[r].tier => searchRun'[r][u] = searchRun[r][u]
  BY <1>3, CloseFacts
<1>8. TablesType' /\ \A q \in Runners \ {r} : searchRun'[q] = searchRun[q]
  BY <1>2, <1>4 DEF ResearchInv, TablesType
<1> DEFINE Closes(point, t) ==
             runner' = [runner EXCEPT ![r] = Fresh(point, t, runner[r].lost)]
<1>7. ASSUME NEW point \in {"start", "release", "abandon"}, NEW t \in 1..LastTier[r],
             Closes(point, t),
             \A u \in 1..LastTier[r] :
               u > t \/ (u = t /\ point = "start") => searchRun'[r][u] = "none"
      PROVE  ResearchInv'
  <2>1. point \in (Early \cup Late) \ {"idle"}
    BY DEF Early, Late
  <2>2. lease' \in {lease, None} /\ UNCHANGED <<article, decision>>
    OBVIOUS
  <2>3. runner' = [runner EXCEPT ![r] = Fresh(point, t, runner[r].lost)]
    BY <1>7
  <2> HIDE DEF Closes
  <2> QED BY <1>7, <1>8, <2>1, <2>2, <2>3, FreshKeeps
<1>5. CASE Leave(r, "release") \/ Leave(r, "abandon")
  <2>1. PICK point \in {"release", "abandon"} : Closes(point, runner[r].tier)
    BY <1>5 DEF Leave
  <2>2. \A u \in 1..LastTier[r] :
          u > runner[r].tier \/ (u = runner[r].tier /\ point = "start")
            => searchRun'[r][u] = "none"
    BY <1>1, <1>4
  <2> HIDE DEF Closes
  <2> QED BY <1>1, <1>7, <2>1, <2>2
<1>6. CASE Widen(r)
  <2>1. CASE runner[r].tier < LastTier[r]
    <3>1. Closes("start", runner[r].tier + 1)
      BY <1>6, <2>1 DEF Widen
    <3>2. /\ runner[r].tier + 1 \in 1..LastTier[r]
          /\ \A u \in 1..LastTier[r] :
               u > runner[r].tier + 1 \/ (u = runner[r].tier + 1 /\ "start" = "start")
                 => searchRun'[r][u] = "none"
      BY <1>1, <1>4, <2>1
    <3> HIDE DEF Closes
    <3> QED BY <1>7, <3>1, <3>2
  <2>2. CASE ~(runner[r].tier < LastTier[r])
    <3>1. Closes("release", runner[r].tier)
      BY <1>6, <2>2 DEF Widen
    <3>2. \A u \in 1..LastTier[r] :
            u > runner[r].tier \/ (u = runner[r].tier /\ "release" = "start")
              => searchRun'[r][u] = "none"
      BY <1>1, <1>4
    <3> HIDE DEF Closes
    <3> QED BY <1>1, <1>7, <3>1, <3>2
  <2> QED BY <2>1, <2>2
<1> QED BY <1>5, <1>6 DEF NoCandidates, CloseFails

(* What a runner passed stays so until it compares it again.                *)
LEMMA PassedKept ==
  ASSUME ResearchInv, NEW r \in Runners, NEW m,
         runner' = [runner EXCEPT ![r] = m], NEW c,
         decision'[c] = decision[c], Passed(r, c)
  PROVE  Passed(r, c)'
BY DEF ResearchInv, Passed

(* A step that changes where the runner is, and its searches at most.       *)
LEMMA PlainStepKeeps ==
  ASSUME ResearchInv, NEW r \in Runners, NEW m \in MemoryRecord,
         runner' = [runner EXCEPT ![r] = m], m.at # "idle",
         lease' = lease \/ lease' = None \/ (lease' = r /\ runner[r].at = "idle"),
         UNCHANGED <<article, decision>>, TablesType',
         \A q \in Runners \ {r} : searchRun'[q] = searchRun[q],
         m.kept = runner[r].kept, WindowInv(r)', KeptInv(r)'
  PROVE  ResearchInv'
BY StepKeeps

(* A pipeline that takes its lease or begins a search knows nothing yet.    *)
LEMMA BeforeKeeps ==
  ASSUME ResearchInv, NEW r \in Runners,
         AcquirePipelineLease(r) \/ StartSearchRun(r)
  PROVE  ResearchInv'
<1>1. /\ runner[r] \in MemoryRecord /\ WindowInv(r) /\ KeptInv(r) /\ TablesType
      /\ runner[r].at \in {"idle", "start"} /\ runner[r].tier \in 1..LastTier[r]
  BY MemoryFacts DEF ResearchInv, AcquirePipelineLease, StartSearchRun, On, WindowInv
<1>2. runner[r].kept = <<>> /\ runner[r].excluded = {}
  BY <1>1 DEF KeptInv, Early
<1>3. PICK point \in {"start", "done", "release", "abandon", "feeds"} : Step(r, point)
  BY DEF AcquirePipelineLease, StartSearchRun
<1> DEFINE m == [runner[r] EXCEPT !.at = point]
<1>4. /\ m \in MemoryRecord /\ m.at = point /\ m.kept = <<>> /\ m.excluded = {}
      /\ m.tier = runner[r].tier /\ m.kept = runner[r].kept /\ m.at # "idle"
  BY <1>1, <1>2 DEF MemoryRecord, Working, Searching
<1>5. runner' = [runner EXCEPT ![r] = m] /\ runner'[r] = m
  BY <1>1, <1>3 DEF Step, MemoryRecord, ResearchInv
<1> HIDE DEF m
<1>6. KeptInv(r)'
  BY <1>4, <1>5, NoneIsThere
     DEF KeptInv, Early, Late, Comparing, Judging, Chosen
<1>7. CASE AcquirePipelineLease(r)
  <2>1. TablesType' /\ UNCHANGED <<searchRun, article, decision>>
    BY <1>1, <1>7 DEF AcquirePipelineLease, TablesType
  <2>2. WindowInv(r)'
    BY <1>1, <1>4, <1>5, <1>7, <2>1 DEF AcquirePipelineLease, On, WindowInv
  <2>3. lease' = lease \/ lease' = None \/ (lease' = r /\ runner[r].at = "idle")
    BY <1>7 DEF AcquirePipelineLease, On
  <2> QED BY <1>2, <1>4, <1>5, <1>6, <2>1, <2>2, <2>3, PlainStepKeeps
<1>8. CASE StartSearchRun(r)
  <2>1. /\ UNCHANGED <<lease, article, decision>>
        /\ ResearchFault \/ UNCHANGED researchFaults
    BY <1>8 DEF StartSearchRun
  <2>5. point \in {"release", "abandon", "feeds"}
    <3>1. PICK p \in {"release", "abandon", "feeds"} : Step(r, p)
      BY <1>8 DEF StartSearchRun
    <3>2. runner'[r].at = p
      BY <1>1, <3>1 DEF Step, ResearchInv, MemoryRecord
    <3> QED BY <1>4, <1>5, <3>2
  <2>2. /\ DOMAIN searchRun' = Runners
        /\ \A q \in Runners :
             searchRun'[q] \in [1..LastTier[q] ->
               {"none", "running", "completed", "filtered", "failed"}]
        /\ \A q \in Runners \ {r} : searchRun'[q] = searchRun[q]
        /\ \A t \in 1..LastTier[r] : t # runner[r].tier => searchRun'[r][t] = searchRun[r][t]
    <3>1. CASE UNCHANGED searchRun
      BY <1>1, <3>1 DEF TablesType
    <3>2. CASE searchRun' = [searchRun EXCEPT ![r][runner[r].tier] = "running"]
      BY <1>1, <3>2 DEF TablesType
    <3> QED BY <1>8, <3>1, <3>2 DEF StartSearchRun
  <2>3. TablesType'
    BY <1>1, <2>1, <2>2, FaultFacts DEF TablesType
  <2>4. WindowInv(r)'
    <3>1. runner[r].tier \in 1..LastTier[r] /\ runner'[r].tier = runner[r].tier
      BY <1>1, <1>4, <1>5
    <3>2. runner'[r].at \notin {"idle", "start"}
      BY <1>5, <2>5, <1>4, <1>1 DEF ResearchInv
    <3>3. \A t \in 1..LastTier[r] : t > runner[r].tier => searchRun[r][t] = "none"
      BY <1>1 DEF WindowInv
    <3>4. \A t \in 1..LastTier[r] : t > runner[r].tier => t # runner[r].tier
      BY <3>1, ResearchAssumption
    <3> QED BY <2>2, <3>1, <3>2, <3>3, <3>4 DEF WindowInv
  <2>6. lease' = lease /\ UNCHANGED <<article, decision>>
    BY <2>1
  <2> QED BY <1>4, <1>5, <1>6, <2>2, <2>3, <2>4, <2>6, PlainStepKeeps
<1> QED BY <1>7, <1>8

(* What the feeds and the search bring is not ranked yet.                   *)
LEMMA GatherKeeps ==
  ASSUME ResearchInv, NEW r \in Runners, runner[r].at \in {"feeds", "discover", "ask"},
         NEW next \in {"discover", "ask", "none"}, Gather(r, next)
  PROVE  ResearchInv'
<1>1. /\ runner[r] \in MemoryRecord /\ WindowInv(r) /\ KeptInv(r) /\ TablesType
      /\ UNCHANGED <<lease, article, decision, searchRun, researchFaults>>
  BY MemoryFacts DEF ResearchInv, Gather
<1>2. runner[r].kept = <<>> /\ runner[r].excluded = {}
  BY <1>1 DEF KeptInv, Early
<1>3. PICK m \in MemoryRecord :
        /\ runner' = [runner EXCEPT ![r] = m] /\ m.kept = <<>> /\ m.excluded = {}
        /\ m.tier = runner[r].tier
        /\ m.at \in {"discover", "ask", "none", "persist"}
        /\ m.at = "persist" => IsInjective(m.todo)
  <2>1. PICK arrives \in SUBSET Brings[r] : \E eligible \in SUBSET arrives :
           \/ \E recent \in SUBSET eligible \ {{}} :
                \E order \in SetToSeqs(recent) :
                  runner' = [runner EXCEPT ![r].at = "persist", ![r].todo = order,
                                           ![r].seen = FALSE, ![r].passed = FALSE]
           \/ runner' = [runner EXCEPT ![r].at = next,
                                       ![r].seen = @ \/ arrives # {},
                                       ![r].passed = @ \/ eligible # {}]
    BY DEF Gather
  <2>2. PICK eligible \in SUBSET arrives :
           \/ \E recent \in SUBSET eligible \ {{}} :
                \E order \in SetToSeqs(recent) :
                  runner' = [runner EXCEPT ![r].at = "persist", ![r].todo = order,
                                           ![r].seen = FALSE, ![r].passed = FALSE]
           \/ runner' = [runner EXCEPT ![r].at = next,
                                       ![r].seen = @ \/ arrives # {},
                                       ![r].passed = @ \/ eligible # {}]
    BY <2>1
  <2>3. ASSUME NEW recent \in SUBSET eligible \ {{}}, NEW order \in SetToSeqs(recent),
               runner' = [runner EXCEPT ![r].at = "persist", ![r].todo = order,
                                        ![r].seen = FALSE, ![r].passed = FALSE]
        PROVE  \E m \in MemoryRecord :
                 /\ runner' = [runner EXCEPT ![r] = m] /\ m.kept = <<>> /\ m.excluded = {}
                 /\ m.tier = runner[r].tier
                 /\ m.at = "persist" /\ IsInjective(m.todo)
    <3> DEFINE m == [runner[r] EXCEPT !.at = "persist", !.todo = order, !.seen = FALSE,
                                      !.passed = FALSE]
    <3>1. order \in Seq(Candidates) /\ IsInjective(order)
      BY Orders
    <3>2. /\ m \in MemoryRecord /\ m.kept = <<>> /\ m.excluded = {}
          /\ m.tier = runner[r].tier /\ m.at = "persist" /\ m.todo = order
      BY <1>1, <1>2, <3>1 DEF MemoryRecord, Working, Searching
    <3>3. runner' = [runner EXCEPT ![r] = m]
      BY <1>1, <2>3 DEF MemoryRecord
    <3> HIDE DEF m
    <3>4. IsInjective(m.todo)
      BY <3>1, <3>2
    <3> QED BY <3>2, <3>3, <3>4
  <2>4. ASSUME runner' = [runner EXCEPT ![r].at = next,
                                        ![r].seen = @ \/ arrives # {},
                                        ![r].passed = @ \/ eligible # {}]
        PROVE  \E m \in MemoryRecord :
                 /\ runner' = [runner EXCEPT ![r] = m] /\ m.kept = <<>> /\ m.excluded = {}
                 /\ m.tier = runner[r].tier /\ m.at \in {"discover", "ask", "none"}
    <3> DEFINE m == [runner[r] EXCEPT !.at = next, !.seen = @ \/ arrives # {},
                                      !.passed = @ \/ eligible # {}]
    <3>1. /\ m \in MemoryRecord /\ m.kept = <<>> /\ m.excluded = {}
          /\ m.tier = runner[r].tier /\ m.at = next
      BY <1>1, <1>2 DEF MemoryRecord, Working, Searching
    <3>2. runner' = [runner EXCEPT ![r] = m]
      BY <1>1, <2>4 DEF MemoryRecord
    <3> HIDE DEF m
    <3> QED BY <3>1, <3>2
  <2> QED BY <2>2, <2>3, <2>4
<1>4. runner'[r] = m /\ m.at # "idle"
  BY <1>3 DEF ResearchInv
<1>5. TablesType' /\ WindowInv(r)'
  BY <1>1, <1>3, <1>4 DEF TablesType, WindowInv
<1>6. KeptInv(r)'
  BY <1>3, <1>4, NoneIsThere
     DEF KeptInv, Early, Late, Comparing, Judging, Chosen
<1>7. lease' = lease /\ UNCHANGED <<article, decision>> /\ m.kept = runner[r].kept
  BY <1>1, <1>2, <1>3
<1>8. \A q \in Runners \ {r} : searchRun'[q] = searchRun[q]
  BY <1>1
<1> QED BY <1>3, <1>4, <1>5, <1>6, <1>7, <1>8, PlainStepKeeps

(* create_or_resume_article_candidate keeps a candidate that is new or may  *)
(* be resumed.                                                              *)
LEMMA PersistKeeps ==
  ASSUME ResearchInv, NEW r \in Runners, CreateOrResumeArticleCandidate(r)
  PROVE  ResearchInv'
<1>1. /\ runner[r] \in MemoryRecord /\ WindowInv(r) /\ KeptInv(r) /\ TablesType
      /\ runner[r].at = "persist" /\ runner[r].todo # <<>>
      /\ runner[r].kept \in Seq(Candidates) /\ runner[r].todo \in Seq(Candidates)
      /\ UNCHANGED <<lease, decision, searchRun, researchFaults>>
  BY MemoryFacts DEF ResearchInv, CreateOrResumeArticleCandidate, On
<1> DEFINE c == Head(runner[r].todo)
           rest == Tail(runner[r].todo)
           k == IF Resumable(c) THEN Append(runner[r].kept, c) ELSE runner[r].kept
           m == [runner[r] EXCEPT !.todo = rest, !.kept = k]
<1>2. /\ c \in Candidates /\ rest \in Seq(Candidates) /\ ToSet(rest) \subseteq ToSet(runner[r].todo)
      /\ c \in ToSet(runner[r].todo) /\ IsInjective(rest) /\ c \notin ToSet(rest)
  BY <1>1, FirstAndRest DEF KeptInv
<1>3. c \notin ToSet(runner[r].kept) /\ IsInjective(runner[r].kept)
  BY <1>1, <1>2 DEF KeptInv
<1> HIDE DEF c, rest
<1>4. /\ k \in Seq(Candidates) /\ IsInjective(k)
      /\ ToSet(k) \subseteq ToSet(runner[r].kept) \cup {c}
      /\ c \in ToSet(k) => Resumable(c)
  BY <1>1, <1>2, <1>3, OneMore
<1>5. runner' = [runner EXCEPT ![r] = m]
  BY <1>1 DEF CreateOrResumeArticleCandidate, MemoryRecord, c, rest
<1>6. /\ m \in MemoryRecord /\ m.at = "persist" /\ m.todo = rest /\ m.kept = k
      /\ m.tier = runner[r].tier /\ m.excluded = runner[r].excluded
  <2> HIDE DEF k
  <2> QED BY <1>1, <1>2, <1>4 DEF MemoryRecord
<1> HIDE DEF m, k
<1>7. runner'[r] = m
  BY <1>5 DEF ResearchInv
<1>8. /\ article' = IF Resumable(c) THEN [article EXCEPT ![c].status = "discovered"]
                                    ELSE article
      /\ Resumable(c) <=> article[c].status \in {"absent", "discovered"}
  BY DEF CreateOrResumeArticleCandidate, c, Resumable
<1>9. /\ TablesType'
      /\ \A x \in Candidates : article'[x] # article[x] =>
           /\ article[x].status \in {"absent", "discovered"}
           /\ article'[x].status = "discovered"
  BY <1>1, <1>2, <1>8 DEF TablesType
<1>10. WindowInv(r)'
  BY <1>1, <1>6, <1>7 DEF WindowInv
<1>11. \A x \in runner[r].excluded : article'[x].status = "rejected"
  BY <1>1, <1>9, MemoryFacts DEF KeptInv
<1>12. KeptInv(r)'
  <2>1. ToSet(k) \cap ToSet(rest) = {}
    BY <1>1, <1>2, <1>4 DEF KeptInv
  <2> QED BY <1>2, <1>4, <1>6, <1>7, <1>11, <2>1
          DEF KeptInv, Early, Late, Comparing, Judging, Chosen
<1>13. \A x \in ToSet(m.kept) : x \in ToSet(runner[r].kept) \/ article[x].status # "drafted"
  BY <1>4, <1>6, <1>8
<1>14. /\ lease' = lease /\ \A q \in Runners \ {r} : searchRun'[q] = searchRun[q]
       /\ \A x \in Candidates : decision'[x] = decision[x]
       /\ m.at # "idle"
  BY <1>1, <1>6
<1>15. \A x \in Candidates :
         \/ article'[x] = article[x]
         \/ /\ article[x].status \in {"absent", "discovered"}
            /\ article'[x].status \in {"discovered", "rejected"}
  BY <1>9
<1> QED BY <1>5, <1>6, <1>9, <1>10, <1>12, <1>13, <1>14, <1>15, StepKeeps

(* ------------------------------------------------------------------------ *)
(* Choosing one candidate *)

(* The candidate a runner compares or judges is one it kept.                *)
LEMMA SubjectFacts ==
  ASSUME ResearchInv, NEW r \in Runners, runner[r].at \in Comparing \cup Judging
  PROVE  /\ Subject(r) \in Candidates
         /\ runner[r].at = "compare" => Subject(r) \in ToSet(runner[r].kept)
         /\ runner[r].at # "compare" /\ runner[r].at # "duplicate" => Passed(r, Subject(r))
         /\ runner[r].todo # <<>> => Subject(r) = Head(runner[r].todo)
<1>1. /\ KeptInv(r) /\ runner[r].todo \in Seq(Candidates)
      /\ ToSet(runner[r].kept) \subseteq Candidates
  BY MemoryFacts
<1>2. CASE runner[r].at \in Comparing
  <2>1. runner[r].todo # <<>> /\ ToSet(runner[r].todo) \subseteq ToSet(runner[r].kept)
    BY <1>1, <1>2 DEF KeptInv
  <2>2. Head(runner[r].todo) \in ToSet(runner[r].todo)
    BY <1>1, <2>1, FirstAndRest
  <2> QED BY <1>1, <1>2, <2>1, <2>2 DEF Subject, KeptInv, Comparing
<1>3. CASE runner[r].at \in Judging
  BY <1>1, <1>3 DEF KeptInv, Subject, Judging
<1> QED BY <1>2, <1>3

(* What going on to the next candidate makes of the runner.                 *)
GoesOn(r, dup, bad, m) ==
  /\ runner' = [runner EXCEPT ![r] = m]
  /\ m.at \in {"compare", "fallback"} /\ m.tier = runner[r].tier
  /\ m.kept = runner[r].kept
  /\ m.deduped = runner[r].deduped \cup dup
  /\ m.excluded = runner[r].excluded \cup bad
  /\ m.at = "compare" => m.todo # <<>>
  /\ m.at = "fallback" => m.todo = <<>>
  /\ ToSet(m.todo) \subseteq ToSet(runner[r].todo)
  /\ \A c \in ToSet(runner[r].todo) : c = Subject(r) \/ c \in ToSet(m.todo)

(* After a candidate that is out the runner turns to the next, and          *)
(* remembers that it is out.                                                *)
LEMMA GoOnFacts ==
  ASSUME ResearchInv, NEW r \in Runners, runner[r].at \in Comparing \cup Judging,
         NEW dup \in SUBSET Candidates, NEW bad \in SUBSET Candidates, GoOn(r, dup, bad)
  PROVE  \E m \in MemoryRecord : GoesOn(r, dup, bad, m)
<1> DEFINE rest == IF runner[r].todo = <<>> THEN <<>> ELSE Tail(runner[r].todo)
           point == IF rest = <<>> THEN "fallback" ELSE "compare"
           went == [runner[r] EXCEPT
                   !.deduped = @ \cup dup, !.excluded = @ \cup bad, !.todo = rest,
                   !.at = point]
<1>1. /\ runner[r] \in MemoryRecord /\ runner[r].todo \in Seq(Candidates)
      /\ DOMAIN runner = Runners
  BY MemoryFacts DEF ResearchInv
<1>2. /\ rest \in Seq(Candidates) /\ ToSet(rest) \subseteq ToSet(runner[r].todo)
      /\ \A c \in ToSet(runner[r].todo) : c = Subject(r) \/ c \in ToSet(rest)
  BY <1>1, FirstAndRest, NoneIsThere, SubjectFacts
<1>3. point \in {"compare", "fallback"} /\ (point = "compare" <=> rest # <<>>)
  OBVIOUS
<1>4. runner' = [runner EXCEPT ![r] = went]
  BY <1>1 DEF GoOn, MemoryRecord
<1> HIDE DEF rest, point
<1>5. /\ went \in MemoryRecord /\ went.at = point /\ went.todo = rest /\ went.kept = runner[r].kept
      /\ went.tier = runner[r].tier
      /\ went.deduped = runner[r].deduped \cup dup
      /\ went.excluded = runner[r].excluded \cup bad
  BY <1>1, <1>2, <1>3 DEF MemoryRecord, Working, Searching
<1>6. /\ went.at \in {"compare", "fallback"}
      /\ went.at = "compare" => went.todo # <<>>
      /\ went.at = "fallback" => went.todo = <<>>
      /\ ToSet(went.todo) \subseteq ToSet(runner[r].todo)
      /\ \A c \in ToSet(runner[r].todo) : c = Subject(r) \/ c \in ToSet(went.todo)
  <2> HIDE DEF went
  <2> QED BY <1>2, <1>3, <1>5
<1> HIDE DEF went
<1>7. went \in MemoryRecord
  BY <1>5
<1> WITNESS went \in MemoryRecord
<1> QED BY <1>4, <1>5, <1>6 DEF GoesOn

(* Going on keeps the invariant.                                            *)
LEMMA GoOnKeeps ==
  ASSUME ResearchInv, NEW r \in Runners, runner[r].at \in Comparing \cup Judging,
         NEW dup \in SUBSET Candidates, NEW bad \in SUBSET Candidates, GoOn(r, dup, bad),
         UNCHANGED <<lease, searchRun>>, TablesType',
         \A c \in Candidates :
           \/ article'[c] = article[c]
           \/ /\ article[c].status \in {"absent", "discovered"}
              /\ article'[c].status \in {"discovered", "rejected"},
         \A c \in Candidates :
           \/ decision'[c] = decision[c]
           \/ /\ decision'[c].by = r /\ c \in ToSet(runner[r].kept)
              /\ c = Subject(r) /\ c \in dup \cup bad,
         Subject(r) \in dup \cup bad \/ Passed(r, Subject(r)),
         \A c \in bad : article'[c].status = "rejected"
  PROVE  ResearchInv'
<1> PICK m \in MemoryRecord : GoesOn(r, dup, bad, m)
  BY GoOnFacts
<1>1. /\ runner' = [runner EXCEPT ![r] = m]
      /\ m.at \in {"compare", "fallback"} /\ m.tier = runner[r].tier
      /\ m.kept = runner[r].kept
      /\ m.deduped = runner[r].deduped \cup dup
      /\ m.excluded = runner[r].excluded \cup bad
      /\ m.at = "compare" => m.todo # <<>>
      /\ m.at = "fallback" => m.todo = <<>>
      /\ ToSet(m.todo) \subseteq ToSet(runner[r].todo)
      /\ \A c \in ToSet(runner[r].todo) : c = Subject(r) \/ c \in ToSet(m.todo)
  BY DEF GoesOn
<1>2. /\ WindowInv(r) /\ KeptInv(r) /\ runner[r].excluded \subseteq Candidates
      /\ ToSet(runner[r].kept) \subseteq Candidates /\ runner'[r] = m
  BY <1>1, MemoryFacts DEF ResearchInv
<1>3. WindowInv(r)'
  BY <1>1, <1>2 DEF WindowInv, Comparing, Judging
<1>4. \A c \in m.excluded : article'[c].status = "rejected"
  BY <1>1, <1>2 DEF KeptInv
<1>5. /\ ToSet(runner[r].todo) \subseteq ToSet(runner[r].kept)
      /\ \A c \in ToSet(runner[r].kept) \ (runner[r].deduped \cup runner[r].excluded) :
           c \notin ToSet(runner[r].todo) => Passed(r, c)
      /\ IsInjective(runner[r].kept)
  BY <1>2 DEF KeptInv
<1>6. ASSUME NEW c \in ToSet(m.kept) \ (m.deduped \cup m.excluded), c \notin ToSet(m.todo)
      PROVE  Passed(r, c)'
  <2>1. c \in Candidates /\ c \notin dup \cup bad
    BY <1>1, <1>2, <1>6
  <2>2. decision'[c] = decision[c]
    BY <2>1
  <2>3. Passed(r, c)
    BY <1>1, <1>5, <1>6, <2>1
  <2> QED BY <1>1, <2>2, <2>3, PassedKept
<1>7. KeptInv(r)'
  <2>1. ToSet(m.todo) \subseteq ToSet(m.kept)
    BY <1>1, <1>5
  <2> QED BY <1>1, <1>2, <1>4, <1>5, <1>6, <2>1
          DEF KeptInv, Early, Late, Comparing, Judging, Chosen
<1>8. /\ m.at # "idle" /\ lease' = lease
      /\ \A q \in Runners \ {r} : searchRun'[q] = searchRun[q]
  BY <1>1
<1>9. \A c \in Candidates :
        decision'[c] = decision[c] \/ (decision'[c].by = r /\ c \in ToSet(runner[r].kept))
  OBVIOUS
<1>10. \A c \in ToSet(m.kept) : c \in ToSet(runner[r].kept) \/ article[c].status # "drafted"
  BY <1>1
<1> QED BY <1>1, <1>3, <1>7, <1>8, <1>9, <1>10, StepKeeps

(* A step to another point of the work, everything in the memory kept.      *)
LEMMA PointKeeps ==
  ASSUME ResearchInv, NEW r \in Runners, runner[r].at \notin {"idle", "start"},
         NEW point \in Working \ {"start"}, Step(r, point), UNCHANGED <<lease, article>>,
         DOMAIN searchRun' = Runners, researchFaults' \in 0..MaxResearchFaults,
         \A q \in Runners :
           searchRun'[q] \in [1..LastTier[q] ->
             {"none", "running", "completed", "filtered", "failed"}],
         \A q \in Runners \ {r} : searchRun'[q] = searchRun[q],
         \A t \in 1..LastTier[r] : t # runner[r].tier => searchRun'[r][t] = searchRun[r][t],
         decision' \in [Candidates ->
           [relation : {"none", "passes", "duplicate", "uncertain"},
            by : Runners \cup {None}]],
         \A c \in Candidates :
           decision'[c] = decision[c] \/ (decision'[c].by = r /\ c \in ToSet(runner[r].kept)),
         \A m \in MemoryRecord :
           /\ m.at = point /\ runner' = [runner EXCEPT ![r] = m] /\ runner'[r] = m
           /\ m = [runner[r] EXCEPT !.at = point]
           /\ m.kept = runner[r].kept /\ m.todo = runner[r].todo /\ m.tier = runner[r].tier
           /\ m.deduped = runner[r].deduped /\ m.excluded = runner[r].excluded
           /\ m.chosen = runner[r].chosen
           /\ Subject(r)' = Subject(r)
           => KeptInv(r)'
  PROVE  ResearchInv'
<1> DEFINE m == [runner[r] EXCEPT !.at = point]
<1>1. /\ runner[r] \in MemoryRecord /\ WindowInv(r) /\ DOMAIN runner = Runners
      /\ runner[r].at \notin {"idle", "start"}
  BY MemoryFacts DEF ResearchInv
<1>2. /\ m \in MemoryRecord /\ m.at = point /\ m.at \notin {"idle", "start"}
      /\ m.kept = runner[r].kept /\ m.todo = runner[r].todo /\ m.tier = runner[r].tier
      /\ m.deduped = runner[r].deduped /\ m.excluded = runner[r].excluded
      /\ m.chosen = runner[r].chosen
  BY <1>1 DEF MemoryRecord, Working, Searching
<1>3. runner' = [runner EXCEPT ![r] = m] /\ runner'[r] = m
  BY <1>1 DEF Step, MemoryRecord
<1>4. Subject(r)' = Subject(r)
  <2> HIDE DEF m
  <2>1. /\ runner'[r].kept = runner[r].kept /\ runner'[r].todo = runner[r].todo
        /\ runner'[r].deduped = runner[r].deduped
        /\ runner'[r].excluded = runner[r].excluded
    BY <1>2, <1>3
  <2>2. FallbackCandidates(r)' = FallbackCandidates(r)
    BY <2>1 DEF FallbackCandidates
  <2> QED BY <2>1, <2>2 DEF Subject
<1>5. KeptInv(r)'
  BY <1>2, <1>3, <1>4
<1> HIDE DEF m
<1>6. WindowInv(r)'
  BY <1>1, <1>2, <1>3 DEF WindowInv
<1>7. TablesType'
  BY DEF ResearchInv, TablesType
<1>8. /\ lease' = lease /\ \A c \in Candidates : article'[c] = article[c]
      /\ \A c \in ToSet(m.kept) : c \in ToSet(runner[r].kept) \/ article[c].status # "drafted"
  BY <1>2
<1> QED BY <1>2, <1>3, <1>5, <1>6, <1>7, <1>8, StepKeeps

(* The four tables, when a step leaves them alone.                          *)
LEMMA TablesFacts ==
  ASSUME ResearchInv
  PROVE  /\ TablesType /\ DOMAIN searchRun = Runners
         /\ researchFaults \in 0..MaxResearchFaults
         /\ \A q \in Runners :
              searchRun[q] \in [1..LastTier[q] ->
                {"none", "running", "completed", "filtered", "failed"}]
         /\ decision \in [Candidates ->
              [relation : {"none", "passes", "duplicate", "uncertain"},
               by : Runners \cup {None}]]
         /\ \A c \in Candidates :
              article[c].status \in {"absent", "discovered", "rejected", "drafted"}
BY DEF ResearchInv, TablesType

(* A search that kept nothing is closed, any other is compared.             *)
LEMMA PersistedKeeps ==
  ASSUME ResearchInv, NEW r \in Runners, Persisted(r)
  PROVE  ResearchInv'
<1>1. /\ runner[r] \in MemoryRecord /\ WindowInv(r) /\ KeptInv(r)
      /\ runner[r].kept \in Seq(Candidates) /\ runner[r].at = "persist"
      /\ UNCHANGED <<lease, article, decision>>
  BY MemoryFacts DEF Persisted, On
<1>2. CASE runner[r].kept = <<>>
  <2>1. NoCandidates(r, "failed") /\ runner[r].at \notin {"idle", "start"}
    BY <1>1, <1>2 DEF Persisted
  <2> QED BY <1>1, <2>1, ClosingKeeps
<1>3. CASE runner[r].kept # <<>>
  <2> DEFINE m == [runner[r] EXCEPT !.at = "compare", !.todo = runner[r].kept]
  <2>1. /\ m \in MemoryRecord /\ m.at = "compare" /\ m.todo = runner[r].kept
        /\ m.kept = runner[r].kept /\ m.tier = runner[r].tier
        /\ m.deduped = runner[r].deduped /\ m.excluded = runner[r].excluded
    BY <1>1 DEF MemoryRecord, Working, Searching
  <2>2. runner' = [runner EXCEPT ![r] = m] /\ UNCHANGED <<searchRun, researchFaults>>
    BY <1>1, <1>3 DEF Persisted, ResearchInv, MemoryRecord
  <2> HIDE DEF m
  <2>3. runner'[r] = m
    BY <2>2 DEF ResearchInv
  <2>4. TablesType' /\ WindowInv(r)'
    BY <1>1, <2>1, <2>2, <2>3, TablesFacts DEF TablesType, WindowInv
  <2>5. KeptInv(r)'
    BY <1>1, <1>3, <2>1, <2>3
       DEF KeptInv, Early, Late, Comparing, Judging, Chosen
  <2>6. lease' = lease /\ UNCHANGED <<article, decision>> /\ m.at # "idle"
    BY <1>1, <2>1
  <2>7. \A q \in Runners \ {r} : searchRun'[q] = searchRun[q]
    BY <2>2
  <2> QED BY <2>1, <2>2, <2>4, <2>5, <2>6, <2>7, PlainStepKeeps
<1> QED BY <1>2, <1>3

(* record_story_dedup_decision: the comparison that is written is that of   *)
(* the candidate the runner looks at.                                       *)
LEMMA CompareKeeps ==
  ASSUME ResearchInv, NEW r \in Runners, RecordStoryDedupDecision(r)
  PROVE  ResearchInv'
<1>1. /\ runner[r].at = "compare" /\ runner[r].at \in Comparing \cup Judging
      /\ UNCHANGED <<lease, article, searchRun, researchFaults>>
  BY DEF RecordStoryDedupDecision, On, Comparing
<1>2. PICK c \in Candidates : c = Subject(r) /\ c \in ToSet(runner[r].kept)
  BY <1>1, SubjectFacts
<1>3. /\ TablesType' <=> decision' \in [Candidates ->
           [relation : {"none", "passes", "duplicate", "uncertain"},
            by : Runners \cup {None}]]
      /\ \A x \in Candidates : article'[x] = article[x]
      /\ UNCHANGED <<lease, searchRun>>
  BY <1>1, TablesFacts DEF TablesType
<1>4. CASE GoOn(r, {c}, {}) /\ UNCHANGED decision
  <2>1. TablesType' /\ {c} \in SUBSET Candidates /\ {} \in SUBSET Candidates
    BY <1>2, <1>3, <1>4, TablesFacts
  <2>2. \A x \in Candidates : decision'[x] = decision[x]
    BY <1>4
  <2> QED BY <1>1, <1>2, <1>3, <1>4, <2>1, <2>2, GoOnKeeps
<1>5. ASSUME NEW relation \in {"passes", "duplicate", "uncertain"},
             decision' = [decision EXCEPT ![c] = [relation |-> relation, by |-> r]],
             CASE relation = "duplicate" -> Step(r, "duplicate")
               [] relation = "uncertain" -> GoOn(r, {c}, {})
               [] OTHER -> Step(r, "extract")
      PROVE  ResearchInv'
  <2>1. /\ decision' \in [Candidates ->
             [relation : {"none", "passes", "duplicate", "uncertain"},
              by : Runners \cup {None}]]
        /\ \A x \in Candidates : x # c => decision'[x] = decision[x]
        /\ decision'[c].by = r /\ decision'[c].relation = relation
    BY <1>2, <1>5, TablesFacts
  <2>2. \A x \in Candidates :
          \/ decision'[x] = decision[x]
          \/ decision'[x].by = r /\ x \in ToSet(runner[r].kept) /\ x = c
    BY <1>2, <2>1
  <2>3. CASE relation = "uncertain"
    <3>1. GoOn(r, {c}, {})
      BY <1>5, <2>3
    <3>2. {c} \in SUBSET Candidates /\ {} \in SUBSET Candidates /\ TablesType'
      BY <1>2, <1>3, <2>1
    <3> QED BY <1>1, <1>3, <2>2, <3>1, <3>2, <1>2, GoOnKeeps
  <2>4. ASSUME NEW point \in {"duplicate", "extract"}, Step(r, point),
               point = "extract" => relation = "passes"
        PROVE  ResearchInv'
    <3>1. ASSUME NEW m \in MemoryRecord,
             /\ m.at = point /\ runner' = [runner EXCEPT ![r] = m] /\ runner'[r] = m
             /\ m = [runner[r] EXCEPT !.at = point]
             /\ m.kept = runner[r].kept /\ m.todo = runner[r].todo /\ m.tier = runner[r].tier
             /\ m.deduped = runner[r].deduped /\ m.excluded = runner[r].excluded
             /\ m.chosen = runner[r].chosen
             /\ Subject(r)' = Subject(r)
          PROVE KeptInv(r)'
      <4>1. /\ KeptInv(r) /\ ToSet(runner[r].kept) \subseteq Candidates
            /\ runner[r].excluded \subseteq Candidates /\ runner[r].todo \in Seq(Candidates)
        BY MemoryFacts
      <4>2. c \in ToSet(runner[r].todo)
        <5>1. runner[r].todo # <<>>
          BY <1>1, <4>1 DEF KeptInv, Comparing
        <5> QED BY <1>1, <4>1, <5>1, SubjectFacts, FirstAndRest, <1>2
      <4>3. \A x \in ToSet(m.kept) \ (m.deduped \cup m.excluded) :
              x \notin ToSet(m.todo) => Passed(r, x)'
        <5> SUFFICES ASSUME NEW x \in ToSet(m.kept) \ (m.deduped \cup m.excluded),
                            x \notin ToSet(m.todo)
                     PROVE  Passed(r, x)'
          OBVIOUS
        <5>1. Passed(r, x)
          BY <1>1, <3>1, <4>1 DEF KeptInv, Comparing
        <5>2. decision'[x] = decision[x]
          BY <2>1, <3>1, <4>1, <4>2
        <5> QED BY <3>1, <5>1, <5>2, PassedKept
      <4>4. point = "extract" => Passed(r, c)'
        BY <2>1, <2>4 DEF Passed
      <4>5. Subject(r)' = c
        BY <1>2, <3>1
      <4> QED BY <1>1, <1>2, <1>3, <3>1, <4>1, <4>3, <4>4, <4>5
              DEF KeptInv, Early, Late, Comparing, Judging, Chosen
    <3>2. /\ UNCHANGED <<lease, article>> /\ DOMAIN searchRun' = Runners
          /\ researchFaults' \in 0..MaxResearchFaults
          /\ \A q \in Runners :
               searchRun'[q] \in [1..LastTier[q] ->
                 {"none", "running", "completed", "filtered", "failed"}]
          /\ \A q \in Runners : searchRun'[q] = searchRun[q]
      BY <1>1, TablesFacts
    <3>3. point \in Working \ {"start"} /\ runner[r].at \notin {"idle", "start"}
      BY <1>1 DEF Working, Searching
    <3> HIDE <1>5
    <3> QED BY <2>1, <2>2, <2>4, <3>1, <3>2, <3>3, PointKeeps
  <2>5. CASE relation = "duplicate"
    <3>1. Step(r, "duplicate")
      BY <1>5, <2>5
    <3> QED BY <2>4, <3>1
  <2>6. CASE relation = "passes"
    <3>1. Step(r, "extract")
      BY <1>5, <2>6
    <3> QED BY <2>4, <2>6, <3>1
  <2> QED BY <1>5, <2>3, <2>5, <2>6
<1> QED BY <1>2, <1>4, <1>5 DEF RecordStoryDedupDecision

(* Steps whose point needs nothing of what was kept but what it had.        *)
LEMMA ThrowKeeps ==
  ASSUME ResearchInv, NEW r \in Runners, runner[r].at \notin {"idle", "start"},
         Step(r, "throw"), UNCHANGED <<lease, article, decision>>,
         UNCHANGED searchRun \/ Close(r, "completed"),
         ResearchFault \/ UNCHANGED researchFaults
  PROVE  ResearchInv'
<1>1. PICK status \in {"completed", "filtered", "failed"} :
        Close(r, status) \/ UNCHANGED searchRun
  OBVIOUS
<1>2. /\ DOMAIN searchRun' = Runners
      /\ \A q \in Runners :
           searchRun'[q] \in [1..LastTier[q] ->
             {"none", "running", "completed", "filtered", "failed"}]
      /\ \A q \in Runners \ {r} : searchRun'[q] = searchRun[q]
      /\ \A t \in 1..LastTier[r] : t # runner[r].tier => searchRun'[r][t] = searchRun[r][t]
  BY <1>1, CloseFacts
<1>3. researchFaults' \in 0..MaxResearchFaults
  BY FaultFacts
<1>4. ASSUME NEW m \in MemoryRecord,
        /\ m.at = "throw" /\ runner' = [runner EXCEPT ![r] = m] /\ runner'[r] = m
        /\ m = [runner[r] EXCEPT !.at = "throw"]
        /\ m.kept = runner[r].kept /\ m.todo = runner[r].todo /\ m.tier = runner[r].tier
        /\ m.deduped = runner[r].deduped /\ m.excluded = runner[r].excluded
        /\ m.chosen = runner[r].chosen
        /\ Subject(r)' = Subject(r)
      PROVE KeptInv(r)'
  BY <1>4, MemoryFacts DEF KeptInv, Early, Late, Comparing, Judging, Chosen
<1>5. "throw" \in Working \ {"start"} /\ UNCHANGED <<lease, article>>
  BY DEF Working, Searching
<1>6. /\ decision' \in [Candidates ->
           [relation : {"none", "passes", "duplicate", "uncertain"},
            by : Runners \cup {None}]]
      /\ \A c \in Candidates :
           decision'[c] = decision[c] \/ (decision'[c].by = r /\ c \in ToSet(runner[r].kept))
  BY TablesFacts
<1> QED BY <1>2, <1>3, <1>4, <1>5, <1>6, PointKeeps

(* What is compared or judged goes to another point of its treatment.       *)
LEMMA TreatKeeps ==
  ASSUME ResearchInv, NEW r \in Runners,
         NEW point \in Judging \cup {"throw"}, Step(r, point),
         \/ point = "throw" /\ runner[r].at \in Comparing \cup Judging \cup {"fallback"}
         \/ runner[r].at \in {"extract"} \cup Judging
         \/ runner[r].at = "fallback" /\ FallbackCandidates(r) # {},
         UNCHANGED <<lease, article, decision, searchRun, researchFaults>>
  PROVE  ResearchInv'
<1>1. /\ KeptInv(r) /\ ToSet(runner[r].kept) \subseteq Candidates
      /\ runner[r].kept \in Seq(Candidates)
      /\ runner[r].at \in Comparing \cup Judging \cup {"fallback"}
  BY MemoryFacts DEF Comparing
<1>2. CASE point = "throw"
  BY <1>1, <1>2, ThrowKeeps DEF Comparing, Judging
<1>3. CASE point \in Judging
  <2>1. Subject(r) \in Candidates /\ Passed(r, Subject(r))
    <3>1. CASE runner[r].at \in {"extract"} \cup Judging
      BY <1>1, <3>1 DEF KeptInv
    <3>2. CASE runner[r].at = "fallback" /\ FallbackCandidates(r) # {}
      <4> DEFINE i == Min(FallbackCandidates(r))
      <4>1. FallbackCandidates(r) \subseteq DOMAIN runner[r].kept
        BY DEF FallbackCandidates
      <4>2. DOMAIN runner[r].kept \subseteq Nat
        BY <1>1
      <4>3. i \in FallbackCandidates(r)
        BY <3>2, <4>1, <4>2, LeastPlace
      <4>4. runner[r].kept[i] \notin runner[r].deduped \cup runner[r].excluded
        BY <4>3 DEF FallbackCandidates
      <4>5. runner[r].kept[i] \in ToSet(runner[r].kept)
        BY <4>1, <4>3 DEF ToSet
      <4>6. runner[r].todo = <<>>
        BY <1>1, <3>2 DEF KeptInv
      <4>7. runner[r].kept[i] \notin ToSet(runner[r].todo)
        BY <4>6, NoneIsThere
      <4>8. Passed(r, runner[r].kept[i])
        BY <1>1, <3>2, <4>4, <4>5, <4>7 DEF KeptInv
      <4>9. Subject(r) = runner[r].kept[i]
        BY <4>6 DEF Subject
      <4> QED BY <1>1, <4>5, <4>8, <4>9
    <3>3. runner[r].at \in {"extract"} \cup Judging
            \/ (runner[r].at = "fallback" /\ FallbackCandidates(r) # {})
      BY <1>3 DEF Judging
    <3> QED BY <3>1, <3>2, <3>3
  <2> PICK c \in Candidates : c = Subject(r)
    BY <2>1
  <2>2. ASSUME NEW m \in MemoryRecord,
          /\ m.at = point /\ runner' = [runner EXCEPT ![r] = m] /\ runner'[r] = m
          /\ m = [runner[r] EXCEPT !.at = point]
          /\ m.kept = runner[r].kept /\ m.todo = runner[r].todo /\ m.tier = runner[r].tier
          /\ m.deduped = runner[r].deduped /\ m.excluded = runner[r].excluded
          /\ m.chosen = runner[r].chosen
          /\ Subject(r)' = Subject(r)
        PROVE KeptInv(r)'
    <3>1. \A x : Passed(r, x) => Passed(r, x)'
      BY <2>2, PassedKept
    <3>2. Subject(r)' = c /\ Passed(r, c)'
      BY <2>1, <2>2, <3>1
    <3>3. \A x \in ToSet(m.kept) \ (m.deduped \cup m.excluded) :
            x \notin ToSet(m.todo) => Passed(r, x)'
      BY <1>1, <2>2, <3>1 DEF KeptInv
    <3> QED BY <1>1, <1>3, <2>2, <3>2, <3>3
            DEF KeptInv, Early, Late, Comparing, Judging, Chosen
  <2>3. point \in Working \ {"start"} /\ runner[r].at \notin {"idle", "start"}
    BY <1>1, <1>3 DEF Working, Searching, Comparing, Judging
  <2>4. /\ DOMAIN searchRun' = Runners /\ researchFaults' \in 0..MaxResearchFaults
        /\ \A q \in Runners :
             searchRun'[q] \in [1..LastTier[q] ->
               {"none", "running", "completed", "filtered", "failed"}]
        /\ \A q \in Runners : searchRun'[q] = searchRun[q]
        /\ UNCHANGED <<lease, article>>
    BY TablesFacts
  <2>5. /\ decision' \in [Candidates ->
             [relation : {"none", "passes", "duplicate", "uncertain"},
              by : Runners \cup {None}]]
        /\ \A x \in Candidates :
             decision'[x] = decision[x] \/ (decision'[x].by = r /\ x \in ToSet(runner[r].kept))
    BY TablesFacts
  <2> QED BY <2>2, <2>3, <2>4, <2>5, PointKeeps
<1> QED BY <1>2, <1>3

(* reject_article_candidate, as a duplicate or as excluded, and on to the   *)
(* next.                                                                    *)
LEMMA RejectKeeps ==
  ASSUME ResearchInv, NEW r \in Runners, runner[r].at \in {"duplicate", "block"},
         NEW dup \in {{}, {Subject(r)}}, NEW bad \in {{}, {Subject(r)}},
         Subject(r) \in dup \cup bad, Reject(r, dup, bad),
         UNCHANGED <<lease, decision, searchRun, researchFaults>>
  PROVE  ResearchInv'
<1>1. runner[r].at \in Comparing \cup Judging
  BY DEF Comparing, Judging
<1>2. Subject(r) \in Candidates
  BY <1>1, SubjectFacts
<1>3. CASE article[Subject(r)].status = "discovered"
  <2>1. /\ article' = [article EXCEPT ![Subject(r)].status = "rejected"]
        /\ GoOn(r, dup, bad)
    BY <1>3 DEF Reject
  <2>2. /\ TablesType'
        /\ \A c \in Candidates : c # Subject(r) => article'[c] = article[c]
        /\ article'[Subject(r)].status = "rejected"
    BY <1>2, <2>1, TablesFacts DEF TablesType
  <2>3. \A c \in Candidates :
          \/ article'[c] = article[c]
          \/ /\ article[c].status \in {"absent", "discovered"}
             /\ article'[c].status \in {"discovered", "rejected"}
    BY <1>3, <2>2
  <2>4. /\ \A c \in bad : article'[c].status = "rejected"
        /\ \A c \in Candidates : decision'[c] = decision[c]
        /\ dup \in SUBSET Candidates /\ bad \in SUBSET Candidates
        /\ UNCHANGED <<lease, searchRun>>
    BY <1>2, <2>2
  <2> QED BY <1>1, <2>1, <2>2, <2>3, <2>4, GoOnKeeps
<1>4. CASE article[Subject(r)].status # "discovered"
  <2>1. Step(r, "throw") /\ UNCHANGED <<lease, article, decision, searchRun, researchFaults>>
    BY <1>4 DEF Reject
  <2> QED BY <1>1, <2>1, TreatKeeps
<1> QED BY <1>3, <1>4

(* The evidence is read for a candidate whose comparison let it pass.       *)
LEMMA ExtractKeeps ==
  ASSUME ResearchInv, NEW r \in Runners, ExtractEvidence(r)
  PROVE  ResearchInv'
<1>1. /\ runner[r].at = "extract" /\ runner[r].at \in Comparing \cup Judging
      /\ UNCHANGED <<lease, article, decision, searchRun, researchFaults>>
      /\ Step(r, "judge") \/ GoOn(r, {}, {})
  BY DEF ExtractEvidence, On, Comparing
<1>2. CASE Step(r, "judge")
  BY <1>1, <1>2, TreatKeeps DEF Judging
<1>3. CASE GoOn(r, {}, {})
  <2>1. Passed(r, Subject(r)) /\ {} \in SUBSET Candidates
    BY <1>1, SubjectFacts
  <2>2. TablesType' /\ \A c \in Candidates : article'[c] = article[c] /\ decision'[c] = decision[c]
    BY <1>1, TablesFacts DEF TablesType
  <2>3. UNCHANGED <<lease, searchRun>> /\ \A c \in {} : article'[c].status = "rejected"
    BY <1>1
  <2> QED BY <1>1, <1>3, <2>1, <2>2, <2>3, GoOnKeeps
<1> QED BY <1>1, <1>2, <1>3

(* The excluded topics let the candidate through, or it is rejected.        *)
LEMMA JudgeKeeps ==
  ASSUME ResearchInv, NEW r \in Runners, EvidenceAllowed(r) \/ RejectExcluded(r)
  PROVE  ResearchInv'
<1>1. CASE RejectExcluded(r)
  <2>1. /\ runner[r].at \in {"duplicate", "block"} /\ Reject(r, {}, {Subject(r)})
        /\ UNCHANGED <<lease, decision, searchRun, researchFaults>>
    BY <1>1 DEF RejectExcluded, On
  <2> QED BY <2>1, RejectKeeps
<1>2. CASE EvidenceAllowed(r)
  <2>1. /\ runner[r].at = "judge"
        /\ UNCHANGED <<lease, article, decision, searchRun, researchFaults>>
    BY <1>2 DEF EvidenceAllowed, On
  <2>2. CASE Step(r, "block")
    BY <2>1, <2>2, TreatKeeps DEF Judging
  <2>3. CASE runner' = [runner EXCEPT ![r] =
               [Fresh("finish", @.tier, @.lost) EXCEPT !.chosen = Subject(r)]]
    <3>1. PICK c \in Candidates : c = Subject(r) /\ Passed(r, c)
      BY <2>1, SubjectFacts DEF Judging
    <3> DEFINE m == [Fresh("finish", runner[r].tier, runner[r].lost) EXCEPT !.chosen = c]
    <3>2. /\ m.at = "finish" /\ m.kept = <<>> /\ m.todo = <<>> /\ m.excluded = {}
          /\ m.chosen = c /\ m.tier = runner[r].tier
      BY DEF Fresh
    <3>3. m \in MemoryRecord
      <4>1. <<>> \in Seq(Candidates)
        OBVIOUS
      <4> QED BY <4>1, MemoryFacts DEF Fresh, MemoryRecord, Working, Searching
    <3>4. runner' = [runner EXCEPT ![r] = m]
      BY <2>3, <3>1 DEF ResearchInv
    <3> HIDE DEF m
    <3>5. runner'[r] = m /\ m.at # "idle"
      BY <3>2, <3>4 DEF ResearchInv
    <3>6. Passed(r, c)'
      BY <2>1, <3>1, <3>4, PassedKept
    <3>7. KeptInv(r)'
      BY <3>2, <3>5, <3>6, NoneIsThere
         DEF KeptInv, Early, Late, Comparing, Judging, Chosen
    <3>8. TablesType' /\ WindowInv(r)'
      BY <2>1, <3>2, <3>5, TablesFacts, MemoryFacts DEF TablesType, WindowInv
    <3>9. /\ \A x \in ToSet(m.kept) :
               x \in ToSet(runner[r].kept) \/ article[x].status # "drafted"
          /\ lease' = lease
          /\ \A x \in Candidates : article'[x] = article[x] /\ decision'[x] = decision[x]
          /\ \A q \in Runners \ {r} : searchRun'[q] = searchRun[q]
      BY <2>1, <3>2, NoneIsThere
    <3> QED BY <3>3, <3>4, <3>5, <3>7, <3>8, <3>9, StepKeeps
  <2> QED BY <1>2, <2>2, <2>3 DEF EvidenceAllowed
<1> QED BY <1>1, <1>2

(* Out of candidates, the runner falls back on one it compared, or ends the *)
(* search.                                                                  *)
LEMMA FallbackKeeps ==
  ASSUME ResearchInv, NEW r \in Runners, Fallback(r)
  PROVE  ResearchInv'
<1>1. runner[r].at = "fallback" /\ UNCHANGED <<lease, article, decision>>
  BY DEF Fallback, On
<1>2. CASE FallbackCandidates(r) = {} /\ OnlyExcluded(r)
  <2>1. NoCandidates(r, "filtered") /\ runner[r].at \notin {"idle", "start"}
    BY <1>1, <1>2 DEF Fallback
  <2> QED BY <1>1, <2>1, ClosingKeeps
<1>3. CASE ~(FallbackCandidates(r) = {} /\ OnlyExcluded(r))
  <2>1. PICK point \in {"throw", "judge"} :
          /\ Step(r, point) /\ UNCHANGED <<searchRun, researchFaults>>
          /\ point = "judge" => FallbackCandidates(r) # {}
    BY <1>3 DEF Fallback
  <2>2. point \in Judging \cup {"throw"}
    BY DEF Judging
  <2> QED BY <1>1, <2>1, <2>2, TreatKeeps
<1> QED BY <1>2, <1>3

(* A runner that leaves, with what it had found.                            *)
LEMMA LeaveKeeps ==
  ASSUME ResearchInv, NEW r \in Runners, runner[r].at # "idle",
         NEW point \in Late, Leave(r, point), UNCHANGED <<article, decision, searchRun>>,
         lease' \in {lease, None}, ResearchFault \/ UNCHANGED researchFaults
  PROVE  ResearchInv'
<1>1. /\ runner[r].tier \in 1..LastTier[r]
      /\ \A u \in 1..LastTier[r] : u > runner[r].tier => searchRun[r][u] = "none"
  BY MemoryFacts DEF WindowInv
<1> PICK t \in 1..LastTier[r] : t = runner[r].tier
  BY <1>1
<1>2. runner' = [runner EXCEPT ![r] = Fresh(point, t, runner[r].lost)]
  BY DEF Leave
<1>3. /\ point \in (Early \cup Late) \ {"idle"} /\ point # "start"
      /\ researchFaults' \in 0..MaxResearchFaults /\ UNCHANGED <<article, decision>>
  BY FaultFacts DEF Early, Late
<1>4. /\ TablesType' /\ \A q \in Runners \ {r} : searchRun'[q] = searchRun[q]
      /\ \A u \in 1..LastTier[r] :
           u > t \/ (u = t /\ point = "start") => searchRun'[r][u] = "none"
  BY <1>1, <1>3, TablesFacts DEF TablesType
<1>5. lease' \in {lease, None}
  OBVIOUS
<1>6. point \in (Early \cup Late) \ {"idle"} /\ UNCHANGED <<article, decision>>
  BY <1>3
<1> QED BY <1>2, <1>4, <1>5, <1>6, FreshKeeps

(* The ways a pipeline or one of its searches ends early.                   *)
LEMMA EndsKeep ==
  ASSUME ResearchInv, NEW r \in Runners,
         \/ ReleasePipelineLease(r) \/ RunnerDies(r) \/ SearchFails(r)
         \/ FailSearchRun(r) \/ NothingRanked(r)
  PROVE  ResearchInv'
<1>1. CASE ReleasePipelineLease(r)
  <2>1. PICK point \in {"done", "abandoned"} : Leave(r, point)
    BY <1>1 DEF ReleasePipelineLease
  <2>2. /\ runner[r].at # "idle" /\ lease' \in {lease, None} /\ point \in Late
        /\ UNCHANGED <<article, decision, searchRun>>
        /\ ResearchFault \/ UNCHANGED researchFaults
    BY <1>1 DEF ReleasePipelineLease, On, Late
  <2> QED BY <2>1, <2>2, LeaveKeeps
<1>2. CASE RunnerDies(r)
  <2>1. /\ Leave(r, "dead") /\ runner[r].at # "idle" /\ "dead" \in Late
        /\ UNCHANGED <<lease, article, decision, searchRun>> /\ ResearchFault
    BY <1>2 DEF RunnerDies, Working, Searching, Late
  <2> QED BY <2>1, LeaveKeeps
<1>3. CASE SearchFails(r)
  <2>1. /\ Step(r, "throw") /\ runner[r].at \notin {"idle", "start"}
        /\ UNCHANGED <<lease, article, decision, searchRun>> /\ ResearchFault
    BY <1>3 DEF SearchFails, Searching
  <2> QED BY <2>1, ThrowKeeps
<1>4. CASE FailSearchRun(r)
  <2>1. /\ runner[r].at \notin {"idle", "start"}
        /\ UNCHANGED <<lease, article, decision>>
        /\ \/ Close(r, "failed") /\ Leave(r, "release") /\ UNCHANGED researchFaults
           \/ CloseFails(r, "failed")
    BY <1>4 DEF FailSearchRun, Throw, On
  <2> QED BY <2>1, ClosingKeeps
<1>5. CASE NothingRanked(r)
  <2>1. PICK status \in {"completed", "filtered", "failed"} : NoCandidates(r, status)
    BY <1>5 DEF NothingRanked
  <2>2. runner[r].at \notin {"idle", "start"} /\ UNCHANGED <<lease, article, decision>>
    BY <1>5 DEF NothingRanked, On
  <2> QED BY <2>1, <2>2, ClosingKeeps
<1> QED BY <1>1, <1>2, <1>3, <1>4, <1>5

(* The search is finished and the draft is written, with the candidate      *)
(* chosen.                                                                  *)
LEMMA FinishKeeps ==
  ASSUME ResearchInv, NEW r \in Runners, FinishSearchRun(r) \/ GenerateReviewDraft(r)
  PROVE  ResearchInv'
<1>1. CASE FinishSearchRun(r) /\ Step(r, "throw")
  <2>1. /\ runner[r].at \notin {"idle", "start"} /\ Close(r, "completed")
        /\ UNCHANGED <<lease, article, decision>>
        /\ ResearchFault \/ UNCHANGED researchFaults
    BY <1>1 DEF FinishSearchRun, On
  <2> QED BY <1>1, <2>1, ThrowKeeps
<1>2. CASE GenerateReviewDraft(r) /\ Leave(r, "release")
  <2>1. /\ runner[r].at # "idle" /\ lease' \in {lease, None} /\ "release" \in Late
        /\ UNCHANGED <<article, decision, searchRun, researchFaults>>
    BY <1>2 DEF GenerateReviewDraft, On, Late
  <2> QED BY <1>2, <2>1, LeaveKeeps
<1>3. ASSUME NEW point \in {"draft", "create"}, Step(r, point),
             runner[r].at \in {"finish", "draft"},
             Close(r, "completed") \/ UNCHANGED searchRun,
             UNCHANGED <<lease, article, decision, researchFaults>>
      PROVE  ResearchInv'
  <2>1. KeptInv(r) /\ runner[r].at \in Chosen
    BY <1>3, MemoryFacts DEF Chosen
  <2>2. ASSUME NEW m \in MemoryRecord,
          /\ m.at = point /\ runner' = [runner EXCEPT ![r] = m] /\ runner'[r] = m
          /\ m = [runner[r] EXCEPT !.at = point]
          /\ m.kept = runner[r].kept /\ m.todo = runner[r].todo /\ m.tier = runner[r].tier
          /\ m.deduped = runner[r].deduped /\ m.excluded = runner[r].excluded
          /\ m.chosen = runner[r].chosen
          /\ Subject(r)' = Subject(r)
        PROVE KeptInv(r)'
    <3>1. \A x : Passed(r, x) => Passed(r, x)'
      BY <1>3, <2>2, PassedKept
    <3> QED BY <1>3, <2>1, <2>2, <3>1
            DEF KeptInv, Early, Late, Comparing, Judging, Chosen
  <2>3. point \in Working \ {"start"} /\ runner[r].at \notin {"idle", "start"}
    BY <1>3 DEF Working
  <2>4. /\ DOMAIN searchRun' = Runners /\ researchFaults' \in 0..MaxResearchFaults
        /\ \A q \in Runners :
             searchRun'[q] \in [1..LastTier[q] ->
               {"none", "running", "completed", "filtered", "failed"}]
        /\ \A q \in Runners \ {r} : searchRun'[q] = searchRun[q]
        /\ \A t \in 1..LastTier[r] :
             t # runner[r].tier => searchRun'[r][t] = searchRun[r][t]
    BY <1>3, CloseFacts, TablesFacts
  <2>5. /\ decision' \in [Candidates ->
             [relation : {"none", "passes", "duplicate", "uncertain"},
              by : Runners \cup {None}]]
        /\ \A x \in Candidates :
             decision'[x] = decision[x] \/ (decision'[x].by = r /\ x \in ToSet(runner[r].kept))
        /\ UNCHANGED <<lease, article>>
    BY <1>3, TablesFacts
  <2> QED BY <1>3, <2>2, <2>3, <2>4, <2>5, PointKeeps
<1> QED BY <1>1, <1>2, <1>3 DEF FinishSearchRun, GenerateReviewDraft, On

(* The draft: whoever else still holds the article has lost its lease.      *)
LEMMA DraftKeeps ==
  ASSUME ResearchInv, NEW r \in Runners, CreateReviewDraft(r)
  PROVE  ResearchInv'
<1>1. /\ runner[r].at = "create" /\ Leave(r, "release")
      /\ UNCHANGED <<lease, decision, searchRun, researchFaults>>
  BY DEF CreateReviewDraft, On
<1>2. CASE ~Draftable(r)
  <2>1. article' = article /\ "release" \in Late /\ lease' \in {lease, None}
    BY <1>1, <1>2 DEF CreateReviewDraft, Late
  <2> QED BY <1>1, <2>1, LeaveKeeps
<1>3. CASE Draftable(r)
  <2> DEFINE m == Fresh("release", runner[r].tier, runner[r].lost)
  <2>1. KeptInv(r) /\ WindowInv(r)
    BY MemoryFacts
  <2>2. PICK c \in Candidates : c = runner[r].chosen /\ Passed(r, c)
    BY <1>1, <2>1 DEF KeptInv, Chosen
  <2>3. /\ lease = r /\ article[c].status = "discovered"
        /\ article' = [article EXCEPT ![c].status = "drafted", ![c].draftBy = r]
    BY <1>3, <2>2 DEF CreateReviewDraft, Draftable
  <2>4. /\ article'[c].status = "drafted" /\ article'[c].draftBy = r
        /\ \A x \in Candidates : x # c => article'[x] = article[x]
        /\ TablesType'
    BY <1>1, <2>2, <2>3, TablesFacts DEF TablesType
  <2>5. /\ m.at = "release" /\ m.tier = runner[r].tier /\ m.kept = <<>> /\ m.todo = <<>>
        /\ m.excluded = {}
    BY DEF Fresh
  <2>6. m \in MemoryRecord
    <3>1. <<>> \in Seq(Candidates)
      OBVIOUS
    <3> QED BY <3>1, MemoryFacts DEF Fresh, MemoryRecord, Working
  <2>7. runner' = [runner EXCEPT ![r] = m] /\ DOMAIN runner = Runners
    BY <1>1 DEF Leave, ResearchInv
  <2> HIDE DEF m
  <2>8. /\ DOMAIN runner' = Runners /\ runner'[r] = m
        /\ \A q \in Runners \ {r} : runner'[q] = runner[q]
    BY <2>7
  <2>9. ASSUME NEW q \in Runners
        PROVE  runner'[q] \in MemoryRecord /\ WindowInv(q)' /\ KeptInv(q)'
    <3>1. CASE q = r
      <4>1. KeptInv(r)'
        BY <2>5, <2>8, NoneIsThere
           DEF KeptInv, Early, Late, Comparing, Judging, Chosen
      <4>2. WindowInv(r)'
        BY <1>1, <2>1, <2>5, <2>8 DEF WindowInv
      <4> QED BY <2>6, <2>8, <3>1, <4>1, <4>2
    <3>2. CASE q # r
      <4>1. runner'[q] = runner[q] /\ runner[q] \in MemoryRecord /\ WindowInv(q) /\ KeptInv(q)
        BY <2>8, <3>2, MemoryFacts
      <4>2. WindowInv(q)'
        BY <1>1, <4>1 DEF WindowInv
      <4>3. ASSUME NEW x, Passed(q, x) PROVE Passed(q, x)'
        BY <1>1, <2>5, <2>8, <4>3 DEF Passed
      <4>4. Subject(q)' = Subject(q)
        BY <4>1 DEF Subject, FallbackCandidates
      <4>5. \A x \in runner[q].excluded : article'[x].status = "rejected"
        <5>1. /\ runner[q].excluded \subseteq Candidates
              /\ \A x \in runner[q].excluded : article[x].status = "rejected"
          BY <4>1, MemoryFacts DEF KeptInv
        <5> QED BY <2>3, <2>4, <5>1
      <4>6. KeptInv(q)'
        BY <4>1, <4>3, <4>4, <4>5 DEF KeptInv
      <4> QED BY <4>1, <4>2, <4>6
    <3> QED BY <3>1, <3>2
  <2>10. \A q \in Runners : Overtaken(q) => Overtaken(q)'
    BY <1>1, <2>5, <2>8 DEF Overtaken
  <2>11. DraftedInv(c)'
    <3>1. ASSUME NEW q \in Runners, c \in ToSet(runner'[q].kept)
          PROVE  q # r /\ Overtaken(q)'
      <4>1. q # r
        BY <2>5, <2>8, <3>1, NoneIsThere
      <4>2. runner'[q] = runner[q] /\ KeptInv(q)
        BY <2>8, <4>1, MemoryFacts
      <4>3. runner[q].at # "idle"
        BY <3>1, <4>2, NoneIsThere DEF KeptInv, Early
      <4> QED BY <1>1, <2>3, <4>1, <4>2, <4>3 DEF Overtaken
    <3>2. \/ decision'[c].relation = "passes"
          \/ decision'[c].by # r /\ Overtaken(decision[c].by)
      BY <1>1, <2>2, <2>3 DEF Passed, Overtaken
    <3>3. \/ decision'[c].relation = "passes"
          \/ decision'[c].by # r /\ Overtaken(decision[c].by)'
      BY <1>1, <2>5, <2>8, <3>2 DEF Overtaken
    <3> QED BY <2>4, <3>1, <3>3 DEF DraftedInv
  <2>12. ASSUME NEW x \in Candidates, x # c PROVE DraftedInv(x)'
    <3>1. DraftedInv(x) /\ article'[x] = article[x] /\ decision'[x] = decision[x]
      BY <1>1, <2>4, <2>12 DEF ResearchInv
    <3>2. \A q \in Runners :
            x \in ToSet(runner'[q].kept) => x \in ToSet(runner[q].kept)
      BY <2>5, <2>8, NoneIsThere
    <3>3. Overtaken(decision[x].by) => Overtaken(decision[x].by)'
      BY <1>1, <2>5, <2>8, <3>1 DEF Overtaken
    <3> QED BY <2>10, <3>1, <3>2, <3>3 DEF DraftedInv
  <2> QED BY <2>4, <2>8, <2>9, <2>11, <2>12 DEF ResearchInv
<1> QED BY <1>2, <1>3

(* A heartbeat finds out that the lease is lost.                            *)
LEMMA LostKeeps ==
  ASSUME ResearchInv, NEW r \in Runners, LeaseHeartbeat(r)
  PROVE  ResearchInv'
<1> DEFINE m == [runner[r] EXCEPT !.lost = TRUE]
<1>1. /\ runner[r] \in MemoryRecord /\ WindowInv(r) /\ KeptInv(r) /\ DOMAIN runner = Runners
      /\ runner[r].at \in Working
      /\ UNCHANGED <<lease, article, decision, searchRun>>
  BY MemoryFacts DEF ResearchInv, LeaseHeartbeat
<1>2. /\ m \in MemoryRecord /\ m.at = runner[r].at /\ m.at # "idle"
      /\ m.kept = runner[r].kept /\ m.todo = runner[r].todo /\ m.tier = runner[r].tier
      /\ m.deduped = runner[r].deduped /\ m.excluded = runner[r].excluded
      /\ m.chosen = runner[r].chosen
  BY <1>1 DEF MemoryRecord, Working, Searching
<1>3. runner' = [runner EXCEPT ![r] = m] /\ runner'[r] = m
  BY <1>1 DEF LeaseHeartbeat, MemoryRecord
<1> HIDE DEF m
<1>4. Subject(r)' = Subject(r)
  <2>1. /\ runner'[r].kept = runner[r].kept /\ runner'[r].todo = runner[r].todo
        /\ runner'[r].deduped = runner[r].deduped
        /\ runner'[r].excluded = runner[r].excluded
    BY <1>2, <1>3
  <2>2. FallbackCandidates(r)' = FallbackCandidates(r)
    BY <2>1 DEF FallbackCandidates
  <2> QED BY <2>1, <2>2 DEF Subject
<1>5. \A x : Passed(r, x) => Passed(r, x)'
  BY <1>1, <1>3, PassedKept
<1>6. KeptInv(r)'
  BY <1>1, <1>2, <1>3, <1>4, <1>5 DEF KeptInv
<1>7. researchFaults' \in 0..MaxResearchFaults
  BY FaultFacts DEF LeaseHeartbeat
<1>8. TablesType' /\ WindowInv(r)'
  <2>1. TablesType'
    BY <1>1, <1>7, TablesFacts DEF TablesType
  <2>2. WindowInv(r)'
    BY <1>1, <1>2, <1>3 DEF WindowInv
  <2> QED BY <2>1, <2>2
<1>9. /\ lease' = lease /\ UNCHANGED <<article, decision>>
      /\ \A q \in Runners \ {r} : searchRun'[q] = searchRun[q]
  BY <1>1
<1> QED BY <1>2, <1>3, <1>6, <1>8, <1>9, PlainStepKeeps

(* A lease runs out under its holder.                                       *)
LEMMA ExpiryKeeps ==
  ASSUME ResearchInv, PipelineLeaseExpires \/ UNCHANGED researchVars
  PROVE  ResearchInv'
<1>1. /\ UNCHANGED <<article, decision, searchRun, runner>> /\ lease' \in {lease, None}
      /\ ResearchFault \/ UNCHANGED researchFaults
  BY DEF PipelineLeaseExpires, researchVars
<1>2. TablesType'
  BY <1>1, TablesFacts, FaultFacts DEF TablesType
<1>3. ASSUME NEW r \in Runners PROVE runner'[r] \in MemoryRecord /\ WindowInv(r)' /\ KeptInv(r)'
  <2>1. /\ runner[r] \in MemoryRecord /\ WindowInv(r) /\ KeptInv(r)
    BY MemoryFacts
  <2>2. WindowInv(r)'
    BY <1>1, <2>1 DEF WindowInv
  <2>3. \A x : Passed(r, x) => Passed(r, x)'
    BY <1>1 DEF Passed
  <2>4. Subject(r)' = Subject(r)
    BY <1>1 DEF Subject, FallbackCandidates
  <2>5. KeptInv(r)'
    BY <1>1, <2>1, <2>3, <2>4 DEF KeptInv
  <2> QED BY <1>1, <2>1, <2>2, <2>5
<1>4. ASSUME NEW c \in Candidates PROVE DraftedInv(c)'
  <2>1. \A d : Overtaken(d) => Overtaken(d)'
    BY <1>1, ResearchAssumption DEF Overtaken
  <2> QED BY <1>1, <2>1 DEF DraftedInv, ResearchInv
<1> QED BY <1>1, <1>2, <1>3, <1>4 DEF ResearchInv

-----------------------------------------------------------------------------
(* The invariant *)

(* What a run keeps, compares, chooses and drafts fits together at the      *)
(* start.                                                                   *)
LEMMA ResearchBegins == ResearchInit => ResearchInv
<1> SUFFICES ASSUME ResearchInit PROVE ResearchInv
  OBVIOUS
<1>1. TablesType
  BY ResearchAssumption DEF ResearchInit, TablesType, NoArticle, NoDecision
<1>2. ASSUME NEW r \in Runners
      PROVE  runner[r] \in MemoryRecord /\ WindowInv(r) /\ KeptInv(r)
  <2>1. /\ runner[r] = Fresh("idle", 1, FALSE) /\ LastTier[r] \in Nat \ {0}
        /\ searchRun[r] = [t \in 1..LastTier[r] |-> "none"]
    BY ResearchAssumption DEF ResearchInit
  <2>2. /\ runner[r].at = "idle" /\ runner[r].tier = 1 /\ runner[r].kept = <<>>
        /\ runner[r].excluded = {}
    BY <2>1 DEF Fresh
  <2>3. runner[r] \in MemoryRecord
    <3>1. <<>> \in Seq(Candidates)
      OBVIOUS
    <3> QED BY <2>1, <3>1 DEF Fresh, MemoryRecord
  <2>4. WindowInv(r)
    <3>1. \A t \in 1..LastTier[r] : searchRun[r][t] = "none"
      BY <2>1
    <3>2. runner[r].tier \in 1..LastTier[r]
      <4>1. \A n \in Nat \ {0} : 1 \in 1..n
        OBVIOUS
      <4>2. 1 \in 1..LastTier[r]
        BY <2>1, <4>1
      <4> QED BY <2>2, <4>2
    <3> QED BY <3>1, <3>2 DEF WindowInv
  <2>5. KeptInv(r)
    BY <2>2, NoneIsThere DEF KeptInv, Early, Late, Comparing, Judging, Chosen
  <2> QED BY <2>3, <2>4, <2>5
<1>3. \A c \in Candidates : DraftedInv(c)
  BY DEF ResearchInit, NoArticle, DraftedInv
<1> QED BY <1>1, <1>2, <1>3 DEF ResearchInv, ResearchInit

(* Every step of a pipeline keeps what it knows of its search true.         *)
LEMMA ResearchKeeps ==
  ASSUME ResearchInv, [ResearchNext]_researchVars PROVE ResearchInv'
<1>1. CASE PipelineLeaseExpires \/ UNCHANGED researchVars
  BY <1>1, ExpiryKeeps
<1>2. ASSUME NEW r \in Runners,
             \/ AcquirePipelineLease(r) \/ RunnerStep(r)
             \/ SearchFails(r) \/ LeaseHeartbeat(r) \/ RunnerDies(r)
      PROVE  ResearchInv'
  <2>1. CASE AcquirePipelineLease(r) \/ StartSearchRun(r)
    BY <2>1, BeforeKeeps
  <2>2. CASE FetchFeeds(r) \/ DiscoverFeeds(r) \/ SearchNews(r)
    <3>1. /\ runner[r].at \in {"feeds", "discover", "ask"}
          /\ \E next \in {"discover", "ask", "none"} : Gather(r, next)
      BY <2>2 DEF FetchFeeds, DiscoverFeeds, SearchNews, On
    <3> QED BY <3>1, GatherKeeps
  <2>3. CASE CreateOrResumeArticleCandidate(r)
    BY <2>3, PersistKeeps
  <2>4. CASE Persisted(r)
    BY <2>4, PersistedKeeps
  <2>5. CASE RecordStoryDedupDecision(r)
    BY <2>5, CompareKeeps
  <2>6. CASE RejectDuplicate(r)
    <3>1. /\ runner[r].at \in {"duplicate", "block"} /\ Reject(r, {Subject(r)}, {})
          /\ UNCHANGED <<lease, decision, searchRun, researchFaults>>
      BY <2>6 DEF RejectDuplicate, On
    <3> QED BY <3>1, RejectKeeps
  <2>7. CASE ExtractEvidence(r)
    BY <2>7, ExtractKeeps
  <2>8. CASE EvidenceAllowed(r) \/ RejectExcluded(r)
    BY <2>8, JudgeKeeps
  <2>9. CASE Fallback(r)
    BY <2>9, FallbackKeeps
  <2>10. CASE FinishSearchRun(r) \/ GenerateReviewDraft(r)
    BY <2>10, FinishKeeps
  <2>11. CASE CreateReviewDraft(r)
    BY <2>11, DraftKeeps
  <2>12. CASE \/ ReleasePipelineLease(r) \/ RunnerDies(r) \/ SearchFails(r)
              \/ FailSearchRun(r) \/ NothingRanked(r)
    BY <2>12, EndsKeep
  <2>13. CASE LeaseHeartbeat(r)
    BY <2>13, LostKeeps
  <2> QED BY <1>2, <2>1, <2>2, <2>3, <2>4, <2>5, <2>6, <2>7, <2>8, <2>9, <2>10, <2>11,
             <2>12, <2>13 DEF RunnerStep
<1> QED BY <1>1, <1>2 DEF ResearchNext

(* The invariant gives the types, and the comparison behind every draft.    *)
LEMMA ResearchMeans == ResearchInv => ResearchTypeOK /\ DecisionBehindDraft
<1>1. ResearchInv => ResearchTypeOK
  BY MemoryFacts DEF ResearchInv, TablesType, ResearchTypeOK, MemoryRecord, WindowInv, KeptInv
<1>2. ResearchInv => DecisionBehindDraft
  BY DEF ResearchInv, DraftedInv, DecisionBehindDraft
<1> QED BY <1>1, <1>2

(* What a run keeps, compares, chooses and drafts fits together in every    *)
(* reachable state, whatever runs that lost the lease still write.          *)
THEOREM ResearchInvariant == ResearchSpec => []ResearchInv
<1>1. ResearchInv /\ [ResearchNext]_researchVars => ResearchInv'
  BY ResearchKeeps
<1> QED BY <1>1, ResearchBegins, PTL DEF ResearchSpec

(* The variables of the searches keep their types.                          *)
THEOREM ResearchIsTyped == ResearchSpec => []ResearchTypeOK
BY ResearchMeans, ResearchInvariant, PTL

(* A drafted article's recorded comparison let it pass, or a run that lost  *)
(* its lease wrote over it: create_review_draft takes the lease, every      *)
(* other run that holds the article has lost it.                            *)
THEOREM TheDraftWasCompared == ResearchSpec => []DecisionBehindDraft
BY ResearchMeans, ResearchInvariant, PTL

(* No step of any run changes an article that was rejected or drafted.      *)
LEMMA SettledKept ==
  ResearchInv /\ [ResearchNext]_researchVars =>
         [\A c \in Candidates : article[c].status \in {"rejected", "drafted"}
            => article'[c] = article[c]]_researchVars
<1> SUFFICES ASSUME ResearchInv, [ResearchNext]_researchVars
             PROVE  [\A c \in Candidates : article[c].status \in {"rejected", "drafted"}
                       => article'[c] = article[c]]_researchVars
  OBVIOUS
<1>1. CASE UNCHANGED article
  BY <1>1
<1>2. ASSUME NEW r \in Runners, CreateOrResumeArticleCandidate(r)
      PROVE  \A c \in Candidates : article[c].status \in {"rejected", "drafted"}
               => article'[c] = article[c]
  BY <1>2, TablesFacts
     DEF CreateOrResumeArticleCandidate, Resumable, ResearchInv, TablesType
<1>3. ASSUME NEW r \in Runners, RejectDuplicate(r) \/ RejectExcluded(r)
      PROVE  \A c \in Candidates : article[c].status \in {"rejected", "drafted"}
               => article'[c] = article[c]
  <2>1. \/ UNCHANGED article
        \/ /\ article[Subject(r)].status = "discovered"
           /\ article' = [article EXCEPT ![Subject(r)].status = "rejected"]
    BY <1>3 DEF RejectDuplicate, RejectExcluded, Reject
  <2>2. DOMAIN article = Candidates
    BY DEF ResearchInv, TablesType
  <2> QED BY <2>1, <2>2
<1>4. ASSUME NEW r \in Runners, CreateReviewDraft(r)
      PROVE  \A c \in Candidates : article[c].status \in {"rejected", "drafted"}
               => article'[c] = article[c]
  BY <1>4 DEF CreateReviewDraft, Draftable, ResearchInv, TablesType
<1>5. \/ UNCHANGED article
      \/ \E r \in Runners :
           \/ CreateOrResumeArticleCandidate(r) \/ RejectDuplicate(r)
           \/ RejectExcluded(r) \/ CreateReviewDraft(r)
  <2>1. CASE PipelineLeaseExpires \/ UNCHANGED researchVars
    BY <2>1 DEF PipelineLeaseExpires, researchVars
  <2>2. ASSUME NEW r \in Runners,
               \/ AcquirePipelineLease(r) \/ SearchFails(r) \/ LeaseHeartbeat(r)
               \/ RunnerDies(r) \/ StartSearchRun(r) \/ FetchFeeds(r)
               \/ DiscoverFeeds(r) \/ SearchNews(r) \/ NothingRanked(r) \/ Persisted(r)
               \/ RecordStoryDedupDecision(r) \/ ExtractEvidence(r)
               \/ EvidenceAllowed(r) \/ Fallback(r) \/ FinishSearchRun(r)
               \/ FailSearchRun(r) \/ GenerateReviewDraft(r) \/ ReleasePipelineLease(r)
        PROVE  UNCHANGED article
    BY <2>2 DEF AcquirePipelineLease, SearchFails, LeaseHeartbeat, RunnerDies,
                StartSearchRun, FetchFeeds, DiscoverFeeds, SearchNews, Gather,
                NothingRanked, Persisted, RecordStoryDedupDecision, ExtractEvidence,
                EvidenceAllowed, Fallback, FinishSearchRun, FailSearchRun,
                GenerateReviewDraft, ReleasePipelineLease
  <2> QED BY <2>1, <2>2 DEF ResearchNext, RunnerStep
<1> QED BY <1>1, <1>2, <1>3, <1>4, <1>5

(* No step of any run changes an article that was rejected or drafted.      *)
THEOREM ArticlesStaySettled == ResearchSpec => SettledForGood
BY SettledKept, ResearchInvariant, PTL DEF ResearchSpec, SettledForGood

(* How a search run changes: it begins, or is closed if it is open.         *)
LEMMA SearchRunChanges ==
  ASSUME ResearchInv, [ResearchNext]_researchVars, NEW r \in Runners,
         NEW t \in 1..LastTier[r], searchRun'[r][t] # searchRun[r][t]
  PROVE  /\ searchRun[r][t] \in {"none", "running"}
         /\ searchRun'[r][t] = "filtered" =>
              \A c \in ToSet(runner[r].kept) :
                article[c].status = "rejected" \/ c \in runner[r].deduped
<1> DEFINE Clean == \A c \in ToSet(runner[r].kept) :
                      article[c].status = "rejected" \/ c \in runner[r].deduped
<1>1. ASSUME NEW status \in {"completed", "filtered", "failed"},
             status = "filtered" => Clean, NEW q \in Runners, Close(q, status)
                                    , q = r
      PROVE  /\ searchRun[r][t] \in {"none", "running"}
             /\ searchRun'[r][t] = "filtered" => Clean
  <2>1. /\ searchRun[r][t] \notin {"none", "running"} => searchRun'[r][t] = searchRun[r][t]
        /\ searchRun'[r][t] = "filtered" =>
             searchRun[r][t] = "filtered" \/ status = "filtered"
    BY <1>1, CloseFacts
  <2> QED BY <1>1, <2>1
<1>2. ASSUME NEW q \in Runners, NEW status \in {"completed", "filtered", "failed"},
             Close(q, status) \/ UNCHANGED searchRun
      PROVE  q = r /\ Close(r, status)
  <2>1. \A p \in Runners \ {q} : searchRun'[p] = searchRun[p]
    BY <1>2, CloseFacts
  <2> QED BY <1>2, <2>1
<1>3. ASSUME NEW q \in Runners, NEW status \in {"completed", "filtered", "failed"},
             NoCandidates(q, status) \/ CloseFails(q, status),
             status = "filtered" /\ q = r => Clean
      PROVE  /\ searchRun[r][t] \in {"none", "running"}
             /\ searchRun'[r][t] = "filtered" => Clean
  <2>1. PICK s \in {status, "failed"} : Close(q, s) \/ UNCHANGED searchRun
    BY <1>3 DEF NoCandidates, CloseFails
  <2>2. s \in {"completed", "filtered", "failed"} /\ (s = "filtered" => status = "filtered")
    BY <2>1
  <2>3. q = r /\ Close(r, s)
    BY <1>2, <2>1, <2>2
  <2> QED BY <1>1, <1>3, <2>2, <2>3
<1>4. ASSUME NEW q \in Runners, StartSearchRun(q)
      PROVE  searchRun[r][t] = "none" /\ searchRun'[r][t] = "running"
  <2>1. /\ searchRun' = [searchRun EXCEPT ![q][runner[q].tier] = "running"]
        /\ runner[q].at = "start"
    BY <1>4 DEF StartSearchRun, On
  <2>2. q = r /\ t = runner[r].tier /\ searchRun'[r][t] = "running"
    BY <2>1, TablesFacts
  <2> QED BY <2>1, <2>2, MemoryFacts DEF WindowInv
<1>5. ASSUME NEW q \in Runners, NothingRanked(q)
      PROVE  /\ searchRun[r][t] \in {"none", "running"}
             /\ searchRun'[r][t] = "filtered" => Clean
  <2>1. PICK status \in {"completed", "filtered", "failed"} : NoCandidates(q, status)
    BY <1>5 DEF NothingRanked
  <2>2. runner[q].kept = <<>>
    BY <1>5, MemoryFacts DEF NothingRanked, On, KeptInv, Early
  <2>3. q = r => Clean
    BY <2>2, NoneIsThere
  <2> HIDE DEF Clean
  <2> QED BY <1>3, <2>1, <2>3
<1>6. ASSUME NEW q \in Runners, Fallback(q)
      PROVE  /\ searchRun[r][t] \in {"none", "running"}
             /\ searchRun'[r][t] = "filtered" => Clean
  <2>1. NoCandidates(q, "filtered") /\ OnlyExcluded(q)
    BY <1>6 DEF Fallback
  <2>2. ToSet(runner[q].kept) \ runner[q].deduped \subseteq runner[q].excluded
    BY <2>1 DEF OnlyExcluded
  <2>3. \A c \in runner[q].excluded : article[c].status = "rejected"
    BY MemoryFacts DEF KeptInv
  <2>4. q = r => Clean
    BY <2>2, <2>3
  <2> HIDE DEF Clean
  <2> QED BY <1>3, <2>1, <2>4
<1>7. ASSUME NEW q \in Runners, Persisted(q) \/ FailSearchRun(q) \/ FinishSearchRun(q)
      PROVE  /\ searchRun[r][t] \in {"none", "running"}
             /\ searchRun'[r][t] = "filtered" => Clean
  <2> HIDE DEF Clean
  <2>1. CASE Persisted(q)
    <3>1. NoCandidates(q, "failed")
      BY <2>1 DEF Persisted
    <3> QED BY <1>3, <3>1
  <2>2. CASE FailSearchRun(q)
    <3>1. Close(q, "failed") \/ CloseFails(q, "failed")
      BY <2>2 DEF FailSearchRun, Throw
    <3>2. CASE Close(q, "failed")
      BY <1>1, <1>2, <3>2
    <3>3. CASE CloseFails(q, "failed")
      BY <1>3, <3>3
    <3> QED BY <3>1, <3>2, <3>3
  <2>3. CASE FinishSearchRun(q)
    <3>1. Close(q, "completed")
      BY <2>3 DEF FinishSearchRun
    <3> QED BY <1>1, <1>2, <3>1
  <2> QED BY <1>7, <2>1, <2>2, <2>3
<1>8. \E q \in Runners :
        \/ StartSearchRun(q) \/ NothingRanked(q) \/ Persisted(q) \/ Fallback(q)
        \/ FinishSearchRun(q) \/ FailSearchRun(q)
  <2>1. ~UNCHANGED searchRun
    OBVIOUS
  <2>2. ~(PipelineLeaseExpires \/ UNCHANGED researchVars)
    BY <2>1 DEF PipelineLeaseExpires, researchVars
  <2>3. ASSUME NEW q \in Runners
        PROVE  ~ \/ AcquirePipelineLease(q) \/ SearchFails(q) \/ LeaseHeartbeat(q)
                 \/ RunnerDies(q) \/ FetchFeeds(q) \/ DiscoverFeeds(q) \/ SearchNews(q)
                 \/ CreateOrResumeArticleCandidate(q) \/ RejectDuplicate(q)
                 \/ RejectExcluded(q) \/ RecordStoryDedupDecision(q) \/ ExtractEvidence(q)
                 \/ EvidenceAllowed(q) \/ CreateReviewDraft(q)
                 \/ GenerateReviewDraft(q) \/ ReleasePipelineLease(q)
    BY <2>1 DEF AcquirePipelineLease, SearchFails, LeaseHeartbeat, RunnerDies,
                FetchFeeds, DiscoverFeeds, SearchNews, Gather,
                CreateOrResumeArticleCandidate, RejectDuplicate, RejectExcluded,
                RecordStoryDedupDecision, ExtractEvidence, EvidenceAllowed,
                CreateReviewDraft, GenerateReviewDraft, ReleasePipelineLease
  <2> QED BY <2>2, <2>3 DEF ResearchNext, RunnerStep
<1> HIDE DEF Clean
<1>9. /\ searchRun[r][t] \in {"none", "running"}
      /\ searchRun'[r][t] = "filtered" => Clean
  BY <1>4, <1>5, <1>6, <1>7, <1>8
<1> QED BY <1>9 DEF Clean

(* No step changes a search run that has ended.                             *)
LEMMA OutcomeKept ==
  ResearchInv /\ [ResearchNext]_researchVars =>
    [\A r \in Runners : \A t \in 1..LastTier[r] :
       searchRun[r][t] \notin {"none", "running"}
       => searchRun'[r][t] = searchRun[r][t]]_researchVars
BY SearchRunChanges

(* A step that closes a search as filtered leaves nothing behind that could *)
(* have been drafted.                                                       *)
LEMMA FilteredKept ==
  ResearchInv /\ [ResearchNext]_researchVars =>
    [\A r \in Runners : \A t \in 1..LastTier[r] :
       searchRun'[r][t] = "filtered" /\ searchRun[r][t] # "filtered" =>
         \A c \in ToSet(runner[r].kept) :
           \/ article[c].status = "rejected"
           \/ c \in runner[r].deduped]_researchVars
BY SearchRunChanges

(* A search run that ended keeps its outcome: finishSearchRun and           *)
(* failSearchRun change running rows only, and a window is begun once.      *)
THEOREM SearchRunsKeepTheirOutcome == ResearchSpec => SearchRunsAreFinal
BY OutcomeKept, ResearchInvariant, PTL DEF ResearchSpec, SearchRunsAreFinal

(* A search recorded as emptied by the excluded topics kept nothing that    *)
(* was not rejected or a story already told.                                *)
THEOREM FilteredSearchesWere == ResearchSpec => FilteredIsTrue
BY FilteredKept, ResearchInvariant, PTL DEF ResearchSpec, FilteredIsTrue
=============================================================================
