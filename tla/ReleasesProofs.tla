--------------------------- MODULE ReleasesProofs ---------------------------
(***************************************************************************)
(* Proofs about Releases, for any publishers, installers, agents, orders   *)
(* and page size, and for any number of failures and releases: what is run *)
(* is what checksums of its tag name, nothing is left torn unreported, a   *)
(* release made alone is what its tag says, and an install during which    *)
(* nothing is deleted finds the newest release.  And                       *)
(* about ParallelBuild, for any agents and number of places: until         *)
(* BuildAll returns somebody can go on, and what it returns is true.       *)
(***************************************************************************)
EXTENDS Releases, ParallelBuild, FiniteSetTheorems, TLAPS

(* ---- installers ---- *)

\* A step that gives one installer another right job, and forgets nothing that
\* was run, keeps all the jobs right.
LEMMA OtherJob ==
  ASSUME TypeOK, InstallUnderWay, NEW i \in Installers, NEW j \in Installs,
         To(i, j), ran \subseteq ran', UNCHANGED issued, Right(j, ran', issued')
  PROVE  inst' \in [Installers -> Installs \cup {Idle}] /\ InstallUnderWay'
<1>1. inst' = [inst EXCEPT ![i] = j] /\ inst \in [Installers -> Installs \cup {Idle}]
  BY DEF To, TypeOK
<1>2. inst' \in [Installers -> Installs \cup {Idle}]
  BY <1>1
<1>3. ASSUME NEW k \in Installers PROVE Right(inst'[k], ran', issued')
  <2>1. CASE k = i  BY <2>1, <1>1
  <2>2. CASE k # i
    <3>1. inst'[k] = inst[k] /\ Right(inst[k], ran, issued)
      BY <2>2, <1>1 DEF InstallUnderWay
    <3> QED  BY <3>1 DEF Right
  <2> QED  BY <2>1, <2>2
<1> QED  BY <1>2, <1>3 DEF InstallUnderWay

\* Where going on with the next agent, or ending, takes a job, and what it leaves.
LEMMA NextFields ==
  ASSUME NEW i \in Installers, NEW ok \in BOOLEAN, inst[i] \in Installs, NextAgent(i, ok)
  PROVE  \E j \in Installs :
           /\ To(i, j)
           /\ j.step = IF inst[i].todo # {} THEN "pick"
                       ELSE IF ok /\ inst[i].failed = {} THEN "ok" ELSE "error"
           /\ j.failed = IF ok THEN inst[i].failed ELSE inst[i].failed \cup {inst[i].agent}
           /\ j.installed = IF ok THEN inst[i].installed \cup {inst[i].rel}
                            ELSE inst[i].installed
           /\ j.todo = inst[i].todo /\ j.page = 1
           /\ j.all = inst[i].all /\ j.version = inst[i].version
           /\ j.heads = inst[i].heads /\ j.gone = inst[i].gone
<1> DEFINE next == IF inst[i].todo # {} THEN "pick"
                   ELSE IF ok /\ inst[i].failed = {} THEN "ok" ELSE "error"
           bad == IF ok THEN inst[i].failed ELSE inst[i].failed \cup {inst[i].agent}
           good == IF ok THEN inst[i].installed \cup {inst[i].rel} ELSE inst[i].installed
           s == Start(i, next)
           j == [s EXCEPT !.failed = bad, !.installed = good]
<1>1. next \in {"pick", "ok", "error"}
  OBVIOUS
<1>2. bad \in SUBSET (Names \cup {None}) /\ good \in SUBSET (Release \cup {None})
  BY DEF Installs
<1>3. /\ s \in Installs /\ s.failed = inst[i].failed /\ s.installed = inst[i].installed
      /\ s.step = next /\ s.todo = inst[i].todo /\ s.page = 1
      /\ s.all = inst[i].all /\ s.version = inst[i].version
      /\ s.heads = inst[i].heads /\ s.gone = inst[i].gone
  <2> HIDE DEF next
  <2>1. next \in Steps
    BY <1>1 DEF Steps
  <2> QED  BY <2>1 DEF Installs, Start
<1>4. To(i, j)
  <2>1. NextAgent(i, ok) <=>
          To(i, [s EXCEPT !.failed = IF ok THEN @ ELSE @ \cup {inst[i].agent},
                          !.installed = IF ok THEN @ \cup {inst[i].rel} ELSE @])
    BY DEF NextAgent
  <2>2. [s EXCEPT !.failed = IF ok THEN @ ELSE @ \cup {inst[i].agent},
                  !.installed = IF ok THEN @ \cup {inst[i].rel} ELSE @] = j
    <3> HIDE DEF s
    <3> QED  BY <1>3
  <2> HIDE DEF j, s
  <2> QED  BY <2>1, <2>2
<1>5. /\ j \in Installs /\ j.step = next /\ j.failed = bad /\ j.installed = good
      /\ j.todo = s.todo /\ j.page = s.page /\ j.all = s.all /\ j.version = s.version
      /\ j.heads = s.heads /\ j.gone = s.gone
  <2> HIDE DEF s, bad, good, next
  <2> QED  BY <1>2, <1>3 DEF Installs
<1> HIDE DEF j, s
<1> QED  BY <1>3, <1>4, <1>5

\* Going on with the next agent, or ending, keeps all the jobs right.
LEMMA NextJob ==
  ASSUME TypeOK, InstallUnderWay, NEW i \in Installers, NEW ok \in BOOLEAN,
         inst[i] \in Installs, NextAgent(i, ok), ran \subseteq ran', UNCHANGED issued
  PROVE  inst' \in [Installers -> Installs \cup {Idle}] /\ InstallUnderWay'
<1>1. PICK j \in Installs : To(i, j) /\ j.step \in {"pick", "ok", "error"}
  BY NextFields
<1>2. Right(j, ran', issued')
  BY <1>1 DEF Right
<1> QED  BY <1>1, <1>2, OtherJob

LEMMA LostJob ==
  ASSUME TypeOK, InstallUnderWay, NEW i \in Installers,
         inst[i] \in Installs, Lost(i), ran \subseteq ran', UNCHANGED issued
  PROVE  inst' \in [Installers -> Installs \cup {Idle}] /\ InstallUnderWay'
<1>1. CASE inst[i].step = "list"
  <2> DEFINE j == [inst[i] EXCEPT !.step = "error"]
  <2>1. To(i, j) /\ j \in Installs /\ j.step = "error"
    BY <1>1 DEF Lost, Installs, Steps
  <2>2. Right(j, ran', issued')
    BY <2>1 DEF Right
  <2> QED  BY <2>1, <2>2, OtherJob
<1>2. CASE inst[i].step # "list"
  BY <1>2, NextJob DEF Lost
<1> QED  BY <1>1, <1>2

\* The releases are Release's, the listed ones and those of a page.
LEMMA ListedAreReleases ==
  ASSUME TypeOK
  PROVE  Listed \subseteq Release /\ \A k \in Nat : Page(k) \subseteq Release
<1>1. \A n \in DOMAIN repo : repo[n] \in Release
  BY DEF TypeOK
<1> QED  BY <1>1 DEF Listed, Page

\* A release that was found is one of the agent that was asked for.
LEMMA FoundJob ==
  ASSUME TypeOK, InstallUnderWay, NEW i \in Installers,
         inst[i] \in Installs, inst[i].step = "resolve",
         NEW r \in Release, r.agent = inst[i].agent, Found(i, r),
         ran \subseteq ran', UNCHANGED issued
  PROVE  inst' \in [Installers -> Installs \cup {Idle}] /\ InstallUnderWay'
<1>1. CASE r.binary = None
  BY <1>1, NextJob DEF Found
<1>2. CASE r.binary # None
  <2> DEFINE j == [Start(i, "download") EXCEPT !.rel = r]
  <2>1. To(i, j)
    BY <1>2 DEF Found
  <2>2. j \in Installs /\ j.step = "download" /\ j.rel = r /\ j.agent = inst[i].agent
    BY DEF Installs, Start, Steps
  <2>3. inst[i].agent \in Names
    BY DEF InstallUnderWay, Right
  <2> HIDE DEF j
  <2>4. Right(j, ran', issued')
    BY <2>2, <2>3 DEF Right
  <2> QED  BY <2>1, <2>2, <2>4, OtherJob
<1> QED  BY <1>1, <1>2

\* What a step of installer i may do to the state, and must leave right.
Outcome ==
  /\ inst' \in [Installers -> Installs \cup {Idle}]
  /\ bin' \in [Names -> Content \cup {None, Damaged, Torn}]
  /\ faults' \in Nat
  /\ ran' \subseteq [content : Content \cup {None, Damaged}, rel : Release, skip : BOOLEAN,
                     token : BOOLEAN]
  /\ UNCHANGED <<shop, deleted>>
  /\ InstallUnderWay' /\ VerifiedRuns' /\ PlacedWasRun'

\* A step that runs nothing and places nothing has only its job to get right.
LEMMA JobOnly ==
  ASSUME IInv, UNCHANGED <<bin, ran, shop, deleted>>, faults' \in Nat,
         inst' \in [Installers -> Installs \cup {Idle}] /\ InstallUnderWay'
  PROVE  Outcome
<1>1. VerifiedRuns' /\ PlacedWasRun'
  BY DEF IInv, OnlyVerifiedRuns, VerifiedRuns, PlacedWasRun, shop
<1> QED  BY <1>1 DEF Outcome, IInv, TypeOK

\* A step to a job at which nothing is promised yet.
LEMMA PlainJob ==
  ASSUME IInv, NEW i \in Installers, NEW j \in Installs, To(i, j),
         j.step \in {"list", "pick", "ok", "error"}, UNCHANGED <<bin, ran, shop, deleted>>,
         faults' \in Nat
  PROVE  Outcome
<1>1. Right(j, ran', issued')
  BY DEF Right
<1> QED  BY <1>1, OtherJob, JobOnly DEF IInv, shop

LEMMA NextPage ==
  ASSUME NEW j \in Installs
  PROVE  LET n == [j EXCEPT !.page = @ + 1, !.tries = 0]
         IN n \in Installs /\ n.step = j.step /\ n.agent = j.agent
<1> DEFINE m == j.page + 1
           n == [j EXCEPT !.page = m, !.tries = 0]
<1>1. m \in Nat
  BY DEF Installs
<1>2. n \in Installs /\ n.step = j.step /\ n.agent = j.agent
  <2> HIDE DEF m
  <2> QED  BY <1>1 DEF Installs
<1> QED  BY <1>2

LEMMA ListSafe ==
  ASSUME IInv, NEW i \in Installers, inst[i] \in Installs, ListPage(i)
  PROVE  Outcome
<1> DEFINE seen == inst[i].seen \cup {r.agent : r \in Page(inst[i].page)}
           named == IF seen = {Plain} THEN {Repo} ELSE seen \ {Plain}
           turned == [inst[i] EXCEPT !.page = @ + 1, !.tries = 0]
           on == [turned EXCEPT !.seen = seen]
           next == IF named = {} THEN "error" ELSE "pick"
           s == Start(i, next)
           end == [s EXCEPT !.todo = named, !.seen = seen]
<1>1. seen \in SUBSET (Names \cup {Plain})
  <2>1. inst[i].page \in Nat /\ inst[i].seen \in SUBSET (Names \cup {Plain})
    BY DEF Installs
  <2>2. Page(inst[i].page) \subseteq Release
    BY <2>1, ListedAreReleases DEF IInv
  <2> QED  BY <2>1, <2>2 DEF Release
<1>2. named \in SUBSET Names
  BY <1>1 DEF Names
<1>3. on \in Installs /\ on.step = "list"
  <2>1. turned \in Installs /\ turned.step = "list"
    BY NextPage DEF ListPage
  <2> HIDE DEF seen, turned
  <2> QED  BY <1>1, <2>1 DEF Installs
<1>4. s \in Installs /\ s.step = next /\ next \in {"error", "pick"}
  <2>1. next \in {"error", "pick"}
    <3> HIDE DEF named
    <3> QED  OBVIOUS
  <2>2. next \in Steps
    <3> HIDE DEF next
    <3> QED  BY <2>1 DEF Steps
  <2> HIDE DEF next
  <2> QED  BY <2>1, <2>2 DEF Installs, Start
<1>5. end \in Installs /\ end.step \in {"error", "pick"}
  <2> HIDE DEF s, seen, named, next
  <2> QED  BY <1>1, <1>2, <1>4 DEF Installs
<1>6. To(i, on) \/ To(i, end)
  <2>1. on = [inst[i] EXCEPT !.seen = seen, !.page = @ + 1, !.tries = 0]
    <3> HIDE DEF seen
    <3> QED  BY DEF Installs
  <2>2. To(i, IF More(inst[i].page)
              THEN [inst[i] EXCEPT !.seen = seen, !.page = @ + 1, !.tries = 0] ELSE end)
    BY DEF ListPage
  <2> HIDE DEF on, end
  <2> QED  BY <2>1, <2>2
<1>7. UNCHANGED <<bin, ran, shop, deleted>> /\ faults' \in Nat
  BY DEF ListPage, IInv, TypeOK
<1> HIDE DEF on, end
<1> QED  BY <1>3, <1>5, <1>6, <1>7, PlainJob

LEMMA PickSafe ==
  ASSUME IInv, NEW i \in Installers, inst[i] \in Installs, NEW a \in Names, Pick(i, a)
  PROVE  Outcome
<1> DEFINE s == Start(i, "resolve")
           j == [s EXCEPT !.agent = a, !.todo = @ \ {a}, !.rel = None, !.tmp = None]
<1>1. s \in Installs
  BY DEF Installs, Start, Steps
<1>2. j \in Installs /\ j.step = "resolve" /\ j.agent = a
  <2>1. s.step = "resolve"  BY DEF Start, Installs
  <2> HIDE DEF s
  <2> QED  BY <1>1, <2>1 DEF Installs
<1>3. To(i, j)
  BY DEF Pick
<1> HIDE DEF j
<1>4. Right(j, ran', issued')
  BY <1>2 DEF Right
<1>5. UNCHANGED <<bin, ran, shop, deleted>> /\ faults' \in Nat
  BY DEF Pick, IInv, TypeOK
<1> QED  BY <1>2, <1>3, <1>4, <1>5, OtherJob, JobOnly DEF IInv, shop

LEMMA ResolveSafe ==
  ASSUME IInv, NEW i \in Installers, inst[i] \in Installs, Resolve(i)
  PROVE  Outcome
<1> DEFINE here == IF inst[i].version = Latest THEN Of(Page(inst[i].page), inst[i].agent)
                   ELSE {r \in Listed : Tag(r) = <<inst[i].agent, inst[i].version>>}
           j == [inst[i] EXCEPT !.page = @ + 1, !.tries = 0]
<1>1. inst[i].step = "resolve" /\ UNCHANGED <<bin, ran, shop, deleted>> /\ faults' \in Nat
  BY DEF Resolve, IInv, TypeOK
<1>2. \A r \in here : r \in Release /\ r.agent = inst[i].agent
  <2>1. inst[i].page \in Nat  BY DEF Installs
  <2> QED  BY <2>1, ListedAreReleases DEF Of, Tag, IInv
<1>3. ASSUME NEW r \in Newest(here), Found(i, r) PROVE Outcome
  <2>1. r \in Release /\ r.agent = inst[i].agent
    BY <1>2 DEF Newest
  <2> QED  BY <1>1, <1>3, <2>1, FoundJob, JobOnly DEF IInv, shop
<1>4. ASSUME To(i, j) PROVE Outcome
  <2>1. j \in Installs /\ j.step = "resolve" /\ j.agent = inst[i].agent
    BY <1>1, NextPage
  <2>2. inst[i].agent \in Names
    BY <1>1 DEF IInv, InstallUnderWay, Right
  <2> HIDE DEF j
  <2>3. Right(j, ran', issued')
    BY <2>1, <2>2 DEF Right
  <2> QED  BY <1>1, <1>4, <2>1, <2>3, OtherJob, JobOnly DEF IInv, shop
<1>5. ASSUME NextAgent(i, FALSE) PROVE Outcome
  BY <1>1, <1>5, NextJob, JobOnly DEF IInv, shop
<1>6. (\E r \in Newest(here) : Found(i, r)) \/ To(i, j) \/ NextAgent(i, FALSE)
  <2>1. \/ \E r \in Newest(here) : Found(i, r)
        \/ IF inst[i].version = Latest /\ More(inst[i].page) THEN To(i, j)
           ELSE NextAgent(i, FALSE)
    BY Zenon DEF Resolve
  <2> HIDE DEF j, here
  <2> QED  BY <2>1
<1> HIDE DEF j, here
<1> QED  BY <1>3, <1>4, <1>5, <1>6

\* What is fetched, and what it is compared with, is of listed releases of the tag.
LEMMA ServedAreListed ==
  ASSUME IInv, NEW i \in Installers, inst[i].rel \in Release
  PROVE  \A r \in Served(i) :
           r \in Release /\ r \in issued /\ Vouches(r, inst[i].rel, inst[i].token)
<1>1. Listed \subseteq Release /\ Listed \subseteq issued
  BY ListedAreReleases DEF IInv, ListedWereIssued
<1> QED  BY <1>1 DEF Served, Vouches

LEMMA DownloadSafe ==
  ASSUME IInv, NEW i \in Installers, inst[i] \in Installs, NEW damaged \in BOOLEAN,
         Download(i, damaged)
  PROVE  Outcome
<1>1. inst[i].step = "download" /\ UNCHANGED <<bin, ran, shop, deleted>> /\ faults' \in Nat
  BY DEF Download, IInv, TypeOK
<1>2. inst[i].rel \in Release /\ inst[i].rel.agent = inst[i].agent /\ inst[i].agent \in Names
  BY <1>1 DEF IInv, InstallUnderWay, Right
<1>3. PICK r \in Served(i) :
        To(i, [Start(i, IF inst[i].skip THEN "describe" ELSE "sums")
               EXCEPT !.tmp = IF damaged THEN Damaged ELSE r.binary])
  BY DEF Download
<1> DEFINE next == IF inst[i].skip THEN "describe" ELSE "sums"
           got == IF damaged THEN Damaged ELSE r.binary
           s == Start(i, next)
           j == [s EXCEPT !.tmp = got]
<1>4. got \in Content \cup {None, Damaged}
  <2>1. r \in Release
    BY <1>2, ServedAreListed
  <2> QED  BY <2>1 DEF Release
<1>5. next \in {"describe", "sums"} /\ (next = "describe" => inst[i].skip)
  OBVIOUS
<1>6. s \in Installs /\ s.step = next /\ s.rel = inst[i].rel /\ s.agent = inst[i].agent
      /\ s.skip = inst[i].skip
  <2> HIDE DEF next
  <2> QED  BY <1>5 DEF Installs, Start, Steps
<1>7. j \in Installs /\ j.step = next /\ j.rel = inst[i].rel /\ j.agent = inst[i].agent
      /\ j.skip = inst[i].skip
  <2> HIDE DEF s, got, next
  <2> QED  BY <1>4, <1>6 DEF Installs
<1>8. To(i, j)
  BY <1>3
<1> HIDE DEF j, next
<1>9. Right(j, ran', issued')
  BY <1>2, <1>5, <1>7 DEF Right
<1> QED  BY <1>1, <1>7, <1>8, <1>9, OtherJob, JobOnly DEF IInv, shop

LEMMA VerifySafe ==
  ASSUME IInv, NEW i \in Installers, inst[i] \in Installs, Verify(i)
  PROVE  Outcome
<1> DEFINE j == Start(i, "describe")
<1>1. inst[i].step = "sums" /\ UNCHANGED <<bin, ran, shop, deleted>> /\ faults' \in Nat
  BY DEF Verify, IInv, TypeOK
<1>2. inst[i].rel \in Release /\ inst[i].rel.agent = inst[i].agent /\ inst[i].agent \in Names
  BY <1>1 DEF IInv, InstallUnderWay, Right
<1>3. ASSUME NEW r \in Served(i), r.sums = inst[i].tmp, To(i, j) PROVE Outcome
  <2>1. j \in Installs /\ j.step = "describe" /\ j.rel = inst[i].rel
        /\ j.agent = inst[i].agent /\ j.tmp = inst[i].tmp /\ j.token = inst[i].token
    BY DEF Installs, Start, Steps
  <2> HIDE DEF j
  <2>2. r \in issued' /\ Vouches(r, j.rel, j.token) /\ j.tmp = r.sums
    BY <1>1, <1>2, <1>3, <2>1, ServedAreListed DEF shop
  <2>3. Right(j, ran', issued')
    BY <1>2, <2>1, <2>2 DEF Right
  <2> QED  BY <1>1, <1>3, <2>1, <2>3, OtherJob, JobOnly DEF IInv, shop
<1>4. ASSUME NextAgent(i, FALSE) PROVE Outcome
  BY <1>1, <1>4, NextJob, JobOnly DEF IInv, shop
<1> HIDE DEF j
<1>5. (\E r \in Served(i) : r.sums = inst[i].tmp /\ To(i, j)) \/ NextAgent(i, FALSE)
  BY DEF Verify, j
<1> QED  BY <1>3, <1>4, <1>5

\* What is run has been compared; of what is recorded as run, nothing is forgotten.
LEMMA DescribeSafe ==
  ASSUME IInv, NEW i \in Installers, inst[i] \in Installs, Describe(i)
  PROVE  Outcome
<1> DEFINE x == [content |-> inst[i].tmp, rel |-> inst[i].rel, skip |-> inst[i].skip,
                 token |-> inst[i].token]
           j == Start(i, "place")
           Runs == [content : Content \cup {None, Damaged}, rel : Release, skip : BOOLEAN,
                    token : BOOLEAN]
<1>1. inst[i].step = "describe" /\ UNCHANGED <<bin, shop, deleted, faults>>
      /\ ran' = ran \cup {x} /\ faults' \in Nat
  BY DEF Describe, IInv, TypeOK
<1>2. /\ inst[i].rel \in Release /\ inst[i].rel.agent = inst[i].agent
      /\ inst[i].agent \in Names
      /\ inst[i].skip \/ \E r \in issued : /\ Vouches(r, inst[i].rel, inst[i].token)
                                           /\ inst[i].tmp = r.sums
  BY <1>1 DEF IInv, InstallUnderWay, Right
<1>3. x \in Runs
  BY <1>2 DEF Installs
<1>4. ran' \subseteq Runs /\ ran \subseteq ran' /\ x \in ran' /\ UNCHANGED issued
  BY <1>1, <1>3 DEF IInv, TypeOK, shop
<1>5. VerifiedRuns' /\ PlacedWasRun'
  <2>1. VerifiedRuns /\ PlacedWasRun
    BY DEF IInv, OnlyVerifiedRuns
  <2>2. x.skip = inst[i].skip /\ x.rel = inst[i].rel /\ x.token = inst[i].token
        /\ x.content = inst[i].tmp
    OBVIOUS
  <2> HIDE DEF x
  <2>3. VerifiedRuns'
    BY <1>1, <1>2, <1>4, <2>1, <2>2 DEF VerifiedRuns
  <2>4. PlacedWasRun'
    BY <1>1, <1>4, <2>1 DEF PlacedWasRun
  <2> QED  BY <2>3, <2>4
<1>6. ASSUME To(i, j) PROVE inst' \in [Installers -> Installs \cup {Idle}] /\ InstallUnderWay'
  <2>1. j \in Installs /\ j.step = "place" /\ j.rel = inst[i].rel
        /\ j.agent = inst[i].agent /\ j.tmp = inst[i].tmp
    BY DEF Installs, Start, Steps
  <2>2. x.content = inst[i].tmp /\ x.rel = inst[i].rel
    OBVIOUS
  <2> HIDE DEF j, x
  <2>3. Right(j, ran', issued')
    BY <1>2, <1>4, <2>1, <2>2 DEF Right
  <2> QED  BY <1>4, <1>6, <2>1, <2>3, OtherJob DEF IInv
<1>7. ASSUME NextAgent(i, FALSE)
      PROVE  inst' \in [Installers -> Installs \cup {Idle}] /\ InstallUnderWay'
  BY <1>4, <1>7, NextJob DEF IInv
<1>8. To(i, j) \/ NextAgent(i, FALSE)
  BY DEF Describe
<1> HIDE DEF j, x
<1>9. inst' \in [Installers -> Installs \cup {Idle}] /\ InstallUnderWay'
  BY <1>6, <1>7, <1>8
<1> QED  BY <1>1, <1>4, <1>5, <1>9 DEF Outcome, IInv, TypeOK

\* A binary being put in place has been run; torn or damaged, it counts for nothing.
LEMMA BinSafe ==
  ASSUME IInv, NEW i \in Installers, inst[i] \in Installs, inst[i].step \in {"place", "placing"},
         NEW c, c \in {inst[i].tmp, Damaged, Torn}, bin' = [bin EXCEPT ![inst[i].agent] = c],
         UNCHANGED <<ran, shop>>
  PROVE  bin' \in [Names -> Content \cup {None, Damaged, Torn}] /\ VerifiedRuns' /\ PlacedWasRun'
<1>1. /\ inst[i].agent \in Names
      /\ \E x \in ran : x.content = inst[i].tmp /\ x.rel.agent = inst[i].agent
  BY DEF IInv, InstallUnderWay, Right
<1>2. /\ bin \in [Names -> Content \cup {None, Damaged, Torn}]
      /\ inst[i].tmp \in Content \cup {None, Damaged}
  BY DEF IInv, TypeOK, Installs
<1>3. bin' \in [Names -> Content \cup {None, Damaged, Torn}]
  BY <1>2
<1>4. VerifiedRuns'
  BY DEF IInv, OnlyVerifiedRuns, VerifiedRuns, shop
<1>5. ASSUME NEW a \in DOMAIN bin', bin'[a] \in Content
      PROVE  \E x \in ran' : x.content = bin'[a] /\ x.rel.agent = a
  <2>1. CASE a = inst[i].agent
    <3>1. c \in Content /\ Damaged \notin Content /\ Torn \notin Content
      BY <2>1, <1>2, <1>5, ReleasesAssumption
    <3> QED  BY <2>1, <3>1, <1>1, <1>2
  <2>2. CASE a # inst[i].agent
    BY <2>2, <1>2, <1>5 DEF IInv, OnlyVerifiedRuns, PlacedWasRun
  <2> QED  BY <2>1, <2>2
<1> QED  BY <1>3, <1>4, <1>5 DEF PlacedWasRun

\* What is put in place has been run.
LEMMA PlaceSafe ==
  ASSUME IInv, NEW i \in Installers, inst[i] \in Installs,
         PlaceStart(i) \/ PlaceEnd(i) \/ PlaceFails(i)
  PROVE  Outcome
<1>1. inst[i].step \in {"place", "placing"} /\ UNCHANGED <<ran, shop, deleted, issued>>
      /\ faults' \in Nat
  <2>1. inst[i].step \in {"place", "placing"} /\ UNCHANGED <<ran, shop, deleted>>
    BY DEF PlaceStart, PlaceEnd, PlaceFails
  <2>2. faults \in Nat /\ (faults' = faults \/ faults' = faults + 1)
    BY DEF PlaceStart, PlaceEnd, PlaceFails, IInv, TypeOK
  <2>3. UNCHANGED issued
    BY <2>1 DEF shop
  <2> QED  BY <2>1, <2>2, <2>3
<1>2. bin' \in [Names -> Content \cup {None, Damaged, Torn}] /\ VerifiedRuns' /\ PlacedWasRun'
  <2>1. CASE UNCHANGED bin
    BY <1>1, <2>1 DEF IInv, TypeOK, OnlyVerifiedRuns, VerifiedRuns, PlacedWasRun
  <2>2. CASE \E c \in {inst[i].tmp, Damaged, Torn} : bin' = [bin EXCEPT ![inst[i].agent] = c]
    BY <1>1, <2>2, BinSafe
  <2>3. PlaceStart(i) =>
          \E c \in {inst[i].tmp, Damaged, Torn} : bin' = [bin EXCEPT ![inst[i].agent] = c]
    BY DEF PlaceStart
  <2>4. Copied(i) \subseteq {inst[i].tmp, Damaged, Torn}
    BY DEF Copied
  <2> QED  BY <2>1, <2>2, <2>3, <2>4 DEF PlaceEnd, PlaceFails
<1>3. inst' \in [Installers -> Installs \cup {Idle}] /\ InstallUnderWay'
  <2>1. CASE PlaceStart(i)
    <3> DEFINE j == Start(i, "placing")
    <3>1. j \in Installs /\ j.step = "placing" /\ j.rel = inst[i].rel
          /\ j.agent = inst[i].agent /\ j.tmp = inst[i].tmp
      BY DEF Installs, Start, Steps
    <3>2. To(i, j)
      BY <2>1 DEF PlaceStart
    <3> HIDE DEF j
    <3>3. Right(j, ran', issued')
      BY <1>1, <3>1 DEF IInv, InstallUnderWay, Right
    <3> QED  BY <1>1, <3>1, <3>2, <3>3, OtherJob DEF IInv
  <2>2. CASE PlaceEnd(i) \/ PlaceFails(i)
    <3>1. NextAgent(i, TRUE) \/ NextAgent(i, FALSE)
      BY <2>2 DEF PlaceEnd, PlaceFails
    <3> QED  BY <1>1, <3>1, NextJob DEF IInv
  <2> QED  BY <2>1, <2>2
<1> QED  BY <1>1, <1>2, <1>3 DEF Outcome, IInv, TypeOK

LEMMA FaultSafe ==
  ASSUME IInv, NEW i \in Installers, inst[i] \in Installs, Transient(i) \/ Refused(i)
  PROVE  Outcome
<1> DEFINE again == [inst[i] EXCEPT !.tries = @ + 1]
<1>1. UNCHANGED <<bin, ran, shop, deleted>> /\ faults' \in Nat
  <2>1. faults \in Nat
    BY DEF IInv, TypeOK
  <2>2. faults' = faults \/ faults' = faults + 1
    BY DEF Transient, Refused
  <2>3. UNCHANGED <<bin, ran, shop, deleted>>
    BY DEF Transient, Refused
  <2> QED  BY <2>1, <2>2, <2>3
<1>2. Lost(i) \/ To(i, again)
  BY DEF Transient, Refused
<1>3. ASSUME To(i, again) PROVE Outcome
  <2> DEFINE n == inst[i].tries + 1
             j == [inst[i] EXCEPT !.tries = n]
  <2>1. n \in Nat
    BY DEF Installs
  <2>2. j \in Installs /\ j.step = inst[i].step /\ j.agent = inst[i].agent
        /\ j.rel = inst[i].rel /\ j.skip = inst[i].skip /\ j.tmp = inst[i].tmp
        /\ j.token = inst[i].token
    <3> HIDE DEF n
    <3> QED  BY <2>1 DEF Installs
  <2>3. To(i, j)
    BY <1>3
  <2>4. Right(inst[i], ran, issued) /\ ran' = ran /\ issued' = issued
    BY <1>1 DEF IInv, InstallUnderWay, shop
  <2> HIDE DEF j
  <2>5. Right(j, ran', issued')
    BY <2>2, <2>4 DEF Right
  <2> QED  BY <1>1, <2>2, <2>3, <2>5, OtherJob, JobOnly DEF IInv, shop
<1> HIDE DEF again
<1>4. CASE Lost(i)
  BY <1>1, <1>4, LostJob, JobOnly DEF IInv, shop
<1> QED  BY <1>2, <1>3, <1>4

\* Every step of an install keeps the jobs right, runs only what was compared and
\* puts in place only what was run.
LEMMA InstallSafe ==
  ASSUME IInv, NEW i \in Installers, InstallStep(i)
  PROVE  Outcome
<1>1. inst[i] \in Installs
  BY DEF InstallStep, IInv, TypeOK
<1>2. Installing(i)
  BY DEF InstallStep
<1>3. CASE \E a \in Agents \cup {Repo} : Pick(i, a)
  BY <1>1, <1>3, PickSafe DEF Names
<1>4. CASE \E damaged \in BOOLEAN : Download(i, damaged)
  BY <1>1, <1>4, DownloadSafe
<1> QED  BY <1>1, <1>2, <1>3, <1>4, ListSafe, ResolveSafe, VerifySafe, DescribeSafe,
            PlaceSafe, FaultSafe DEF Installing

LEMMA StartInstallSafe ==
  ASSUME IInv, NEW i \in Installers, NEW o \in Orders, StartInstall(i, o)
  PROVE  Outcome
<1> DEFINE step == IF o.all THEN "list" ELSE "pick"
           j == [step |-> step, all |-> o.all, todo |-> o.agents,
            version |-> o.version, skip |-> o.skip, token |-> o.token, agent |-> None,
            rel |-> None, tmp |-> None, page |-> 1, tries |-> 0, seen |-> {}, failed |-> {},
            installed |-> {}, heads |-> Heads, gone |-> deleted]
<1>1. o.all \in BOOLEAN /\ o.agents \subseteq Names /\ o.skip \in BOOLEAN /\ o.token \in BOOLEAN
      /\ o.version \in Versions \cup {Latest}
  BY ReleasesAssumption DEF Names
<1>2. Heads \in [Agents -> SUBSET Nat]
  <2>1. Listed \subseteq Release
    BY ListedAreReleases DEF IInv
  <2>2. \A a \in Agents : \A r \in Newest(Of(Listed, a)) : r \in Release
    BY <2>1 DEF Newest, Of
  <2>3. \A r \in Release : r.id \in Nat
    BY DEF Release
  <2> QED  BY <2>2, <2>3 DEF Heads
<1>3. deleted \in Nat /\ UNCHANGED <<bin, ran, shop, deleted>> /\ faults' \in Nat
  BY DEF StartInstall, IInv, TypeOK
<1>4. step \in Steps /\ step \in {"list", "pick"}
  BY DEF Steps
<1>5. j \in Installs /\ j.step = step
  <2> HIDE DEF step
  <2> QED  BY <1>1, <1>2, <1>3, <1>4 DEF Installs
<1>6. To(i, j)
  BY DEF StartInstall
<1> HIDE DEF j, step
<1> QED  BY <1>3, <1>4, <1>5, <1>6, PlainJob

\* A step of an install forgets none of the agents that failed.
LEMMA FailedKept ==
  ASSUME NEW i \in Installers, inst[i] \in Installs, Installing(i)
  PROVE  \E j : To(i, j) /\ DOMAIN j = DOMAIN inst[i] /\ inst[i].failed \subseteq j.failed
<1> DEFINE o == inst[i]
           Like(j) == DOMAIN j = DOMAIN o /\ o.failed \subseteq j.failed
<1>1. DOMAIN o = {"step", "all", "todo", "version", "skip", "token", "agent", "rel", "tmp",
                  "page", "tries", "seen", "failed", "installed", "heads", "gone"}
  BY DEF Installs
<1>2. ASSUME NEW step PROVE Like(Start(i, step))
  BY <1>1 DEF Start
<1>3. ASSUME NEW ok \in BOOLEAN, NextAgent(i, ok) PROVE \E j : To(i, j) /\ Like(j)
  <2>1. PICK j \in Installs :
          /\ To(i, j)
          /\ j.failed = IF ok THEN o.failed ELSE o.failed \cup {o.agent}
    BY <1>3, NextFields
  <2>2. DOMAIN j = DOMAIN o
    BY DEF Installs
  <2> QED  BY <2>1, <2>2
<1>4. ASSUME ListPage(i) PROVE \E j : To(i, j) /\ Like(j)
  <2> DEFINE seen == o.seen \cup {r.agent : r \in Page(o.page)}
             named == IF seen = {Plain} THEN {Repo} ELSE seen \ {Plain}
             on == [o EXCEPT !.seen = seen, !.page = @ + 1, !.tries = 0]
             s == Start(i, IF named = {} THEN "error" ELSE "pick")
             end == [s EXCEPT !.todo = named, !.seen = seen]
  <2>1. To(i, IF More(o.page) THEN on ELSE end)
    BY <1>4 DEF ListPage
  <2>2. Like(on)
    <3> HIDE DEF seen
    <3> QED  BY <1>1
  <2>3. Like(s)
    BY <1>2
  <2>4. Like(end)
    <3> HIDE DEF s, seen, named
    <3> QED  BY <1>1, <2>3
  <2> HIDE DEF on, end, Like
  <2> QED  BY <2>1, <2>2, <2>4
<1>5. ASSUME NEW a, Pick(i, a) PROVE \E j : To(i, j) /\ Like(j)
  <2> DEFINE s == Start(i, "resolve")
             j == [s EXCEPT !.agent = a, !.todo = @ \ {a}, !.rel = None, !.tmp = None]
  <2>1. To(i, j)
    BY <1>5 DEF Pick
  <2>2. Like(s)
    BY <1>2
  <2>3. Like(j)
    <3> HIDE DEF s
    <3> QED  BY <1>1, <2>2
  <2> HIDE DEF j, Like
  <2> QED  BY <2>1, <2>3
<1>6. ASSUME Resolve(i) PROVE \E j : To(i, j) /\ Like(j)
  <2> DEFINE on == [o EXCEPT !.page = @ + 1, !.tries = 0]
             s == Start(i, "download")
             got(r) == [s EXCEPT !.rel = r]
  <2>1. (\E r : To(i, got(r))) \/ To(i, on) \/ NextAgent(i, FALSE)
    BY <1>6 DEF Resolve, Found
  <2>2. Like(on)
    BY <1>1
  <2>3. Like(s)
    BY <1>2
  <2>4. \A r : Like(got(r))
    <3> HIDE DEF s
    <3> QED  BY <1>1, <2>3
  <2> HIDE DEF on, got, Like
  <2> QED  BY <1>3, <2>1, <2>2, <2>4
<1>7. ASSUME NEW damaged, Download(i, damaged) PROVE \E j : To(i, j) /\ Like(j)
  <2>1. PICK r \in Served(i) :
          To(i, [Start(i, IF o.skip THEN "describe" ELSE "sums")
                 EXCEPT !.tmp = IF damaged THEN Damaged ELSE r.binary])
    BY <1>7 DEF Download
  <2> DEFINE s == Start(i, IF o.skip THEN "describe" ELSE "sums")
             got == IF damaged THEN Damaged ELSE r.binary
             j == [s EXCEPT !.tmp = got]
  <2>2. Like(s)
    BY <1>2
  <2>3. Like(j)
    <3> HIDE DEF s, got
    <3> QED  BY <1>1, <2>2
  <2> HIDE DEF Like
  <2> QED  BY <2>1, <2>3
<1>8. ASSUME Transient(i) \/ Refused(i) PROVE \E j : To(i, j) /\ Like(j)
  <2> DEFINE again == [o EXCEPT !.tries = @ + 1]
             lost == [o EXCEPT !.step = "error"]
  <2>1. To(i, again) \/ To(i, lost) \/ NextAgent(i, FALSE)
    BY <1>8 DEF Transient, Refused, Lost
  <2>2. Like(again) /\ Like(lost)
    BY <1>1
  <2> HIDE DEF again, lost, Like
  <2> QED  BY <1>3, <2>1, <2>2
<1>9. ASSUME Verify(i) \/ Describe(i) \/ PlaceStart(i) \/ PlaceEnd(i) \/ PlaceFails(i)
      PROVE  \E j : To(i, j) /\ Like(j)
  <2>1. (\E step : To(i, Start(i, step))) \/ NextAgent(i, FALSE) \/ NextAgent(i, TRUE)
    BY <1>9 DEF Verify, Describe, PlaceStart, PlaceEnd, PlaceFails
  <2> HIDE DEF Like
  <2> QED  BY <1>2, <1>3, <2>1
<1> QED  BY <1>4, <1>5, <1>6, <1>7, <1>8, <1>9 DEF Installing

\* A torn binary has somebody to blame for it: who writes it, or an install in which
\* the agent has failed.
LEMMA TornKept ==
  ASSUME IInv, NEW i \in Installers, InstallStep(i)
  PROVE  TornIsReported'
<1>1. inst[i] \in Installs /\ Installing(i) /\ inst \in [Installers -> Installs \cup {Idle}]
      /\ bin \in [Names -> Content \cup {None, Damaged, Torn}] /\ TornIsReported
  BY DEF InstallStep, IInv, TypeOK, OnlyVerifiedRuns
<1>2. PICK j : To(i, j) /\ DOMAIN j = DOMAIN inst[i] /\ inst[i].failed \subseteq j.failed
  BY <1>1, FailedKept
<1>3. inst'[i] = j /\ j # Idle /\ \A k \in Installers \ {i} : inst'[k] = inst[k]
  <2>1. inst'[i] = j /\ \A k \in Installers \ {i} : inst'[k] = inst[k]
    BY <1>1, <1>2 DEF To
  <2>2. "failed" \in DOMAIN j /\ "failed" \notin DOMAIN Idle
    BY <1>1, <1>2 DEF Installs, Idle
  <2> QED  BY <2>1, <2>2
<1>4. SUFFICES ASSUME NEW a \in DOMAIN bin', bin'[a] = Torn
               PROVE  \E k \in Installers : Blamed(inst'[k], a)
  BY DEF TornIsReported
<1>5. CASE inst[i].step = "placing" /\ inst[i].agent = a
  <2>1. PlaceEnd(i) \/ PlaceFails(i)
    BY <1>1, <1>5 DEF Installing, ListPage, Resolve, Verify, Describe, PlaceStart, Transient,
                      Refused, Asking, Pick, Download
  <2>2. ~PlaceEnd(i)
    <3>1. inst[i].tmp # Torn /\ Damaged # Torn
      BY <1>1, ReleasesAssumption DEF Installs
    <3>2. \A c \in Copied(i) : c # Torn
      BY <3>1 DEF Copied
    <3>3. a \in DOMAIN bin => \A c : [bin EXCEPT ![a] = c][a] = c
      OBVIOUS
    <3> QED  BY <1>1, <1>4, <1>5, <3>2, <3>3 DEF PlaceEnd
  <2>3. PICK l \in Installs : To(i, l) /\ l.failed = inst[i].failed \cup {inst[i].agent}
    <3>1. NextAgent(i, FALSE)
      BY <2>1, <2>2 DEF PlaceFails
    <3> QED  BY <1>1, <3>1, NextFields
  <2>4. inst'[i] = l /\ a \in l.failed
    BY <1>1, <1>5, <2>3 DEF To
  <2> QED  BY <1>3, <2>4 DEF Blamed
<1>6. CASE ~(inst[i].step = "placing" /\ inst[i].agent = a) /\ a \in DOMAIN bin /\ bin[a] = Torn
  <2>1. PICK k \in Installers : Blamed(inst[k], a)
    BY <1>1, <1>6 DEF TornIsReported
  <2>2. CASE k = i
    <3>1. a \in j.failed
      BY <1>2, <1>6, <2>1, <2>2 DEF Blamed
    <3> QED  BY <1>3, <3>1 DEF Blamed
  <2>3. CASE k # i
    BY <1>3, <2>1, <2>3
  <2> QED  BY <2>2, <2>3
<1>7. CASE /\ ~(inst[i].step = "placing" /\ inst[i].agent = a)
           /\ ~(a \in DOMAIN bin /\ bin[a] = Torn)
  <2>1. bin' # bin
    BY <1>4, <1>7
  <2>2. PlaceStart(i)
    <3>1. ASSUME NEW c, inst[i].step = "placing", bin' = [bin EXCEPT ![inst[i].agent] = c]
          PROVE  FALSE
      BY <1>1, <1>4, <1>7, <3>1
    <3> QED  BY <1>1, <2>1, <3>1 DEF Installing, ListPage, Resolve, Verify, Describe, PlaceEnd,
                      PlaceFails, Transient, Refused, Pick, Download
  <2>3. inst[i].agent = a /\ To(i, Start(i, "placing"))
    BY <1>1, <1>4, <1>7, <2>2 DEF PlaceStart
  <2>4. Start(i, "placing").step = "placing" /\ Start(i, "placing").agent = a
    BY <1>1, <2>3 DEF Start, Installs
  <2>5. inst'[i] = Start(i, "placing")
    BY <1>1, <2>3 DEF To
  <2> QED  BY <1>3, <2>4, <2>5 DEF Blamed
<1> QED  BY <1>5, <1>6, <1>7

LEMMA TornAtStart ==
  ASSUME IInv, NEW i \in Installers, NEW o \in Orders, StartInstall(i, o)
  PROVE  TornIsReported'
<1>1. inst[i] = Idle /\ UNCHANGED bin /\ \A k \in Installers \ {i} : inst'[k] = inst[k]
  BY DEF StartInstall, To, IInv, TypeOK
<1>2. ASSUME NEW a \in DOMAIN bin, bin[a] = Torn PROVE \E k \in Installers : Blamed(inst'[k], a)
  <2>1. PICK k \in Installers : Blamed(inst[k], a)
    BY <1>2 DEF IInv, OnlyVerifiedRuns, TornIsReported
  <2> QED  BY <1>1, <2>1 DEF Blamed
<1> QED  BY <1>1, <1>2 DEF TornIsReported

(* ---- publishers ---- *)

\* A step of a publisher that leaves the installers alone keeps what is said of them.
LEMMA InstallersKept ==
  ASSUME IInv, UNCHANGED <<inst, bin, ran>>, issued \subseteq issued'
  PROVE  InstallUnderWay' /\ OnlyVerifiedRuns'
<1>1. InstallUnderWay'
  BY DEF IInv, InstallUnderWay, Right
<1>2. VerifiedRuns'
  BY DEF IInv, OnlyVerifiedRuns, VerifiedRuns
<1>3. PlacedWasRun' /\ TornIsReported'
  BY DEF IInv, OnlyVerifiedRuns, PlacedWasRun, TornIsReported, Blamed
<1> QED  BY <1>1, <1>2, <1>3 DEF OnlyVerifiedRuns

\* The releases keep to their tags while none is added and the publishers that
\* overlap are not forgotten.
LEMMA ReleasesKept ==
  ASSUME IInv, UNCHANGED <<repo, issued>>, overlap \subseteq overlap'
  PROVE  ReleaseIsAsTagged' /\ ListedWereIssued'
BY DEF IInv, ReleaseIsAsTagged, ListedWereIssued, Listed

LEMMA StartPublishSafe ==
  ASSUME IInv, NEW p \in Publishers, NEW as \in SUBSET Agents, NEW v \in Versions,
         StartPublish(p, as, v)
  PROVE  IInv'
<1> DEFINE run == {q \in Publishers : Publishing(q)}
           j == [step |-> "compile", todo |-> as, version |-> v]
<1>1. /\ pub[p] = Idle /\ pub' = [pub EXCEPT ![p] = j]
      /\ overlap' = IF run = {} THEN overlap ELSE overlap \cup run \cup {p}
      /\ UNCHANGED <<repo, created, dir, builds, inst, bin, faults, deleted, issued, ran>>
  BY DEF StartPublish
<1>2. TypeOK /\ PublishUnderWay
  BY DEF IInv
<1>3. j \in Publishes /\ j.step = "compile"
  BY DEF Publishes
<1> HIDE DEF j
<1>4. overlap' \subseteq Publishers /\ overlap \subseteq overlap'
  BY <1>1, <1>2 DEF TypeOK
<1>5. TypeOK'
  BY <1>1, <1>2, <1>3, <1>4 DEF TypeOK
<1>6. \A q \in Publishers \ {p} : pub'[q] = pub[q]
  BY <1>1, <1>2 DEF TypeOK
<1>7. pub'[p] = j
  BY <1>1, <1>2 DEF TypeOK
<1>8. PublishUnderWay'
  <2> SUFFICES ASSUME NEW a \in Publishers
               PROVE  /\ \A q \in Publishers \ {a} :
                           Publishing(a)' /\ Publishing(q)' => a \in overlap'
                      /\ a \notin overlap' /\ pub'[a].step \in {"sum", "release"} =>
                           LET b == dir'[pub'[a].agent].bin
                           IN /\ b \in Content /\ b.agent = pub'[a].agent
                              /\ b.version = pub'[a].version
                              /\ pub'[a].step = "release" => dir'[pub'[a].agent].sums = b
    BY DEF PublishUnderWay
  <2>1. ASSUME NEW q \in Publishers \ {a}, Publishing(a)', Publishing(q)'
        PROVE  a \in overlap'
    <3>1. CASE a = p
      <4>1. q \in run
        BY <3>1, <2>1, <1>6 DEF Publishing
      <4> QED  BY <3>1, <4>1, <1>1
    <3>2. CASE a # p /\ q = p
      <4>1. a \in run
        BY <3>2, <2>1, <1>6 DEF Publishing
      <4> QED  BY <4>1, <1>1
    <3>3. CASE a # p /\ q # p
      BY <3>3, <2>1, <1>2, <1>4, <1>6 DEF Publishing, PublishUnderWay
    <3> QED  BY <3>1, <3>2, <3>3
  <2>2. CASE a = p
    BY <2>1, <2>2, <1>3, <1>7
  <2>3. CASE a # p
    BY <2>1, <2>3, <1>1, <1>2, <1>4, <1>6 DEF PublishUnderWay
  <2> QED  BY <2>2, <2>3
<1> QED  BY <1>1, <1>4, <1>5, <1>8, InstallersKept, ReleasesKept DEF IInv

\* A publisher at work goes on: only what it finds itself in build/publish is in
\* question, as nobody works there at the same time unknown.
LEMMA PublisherStep ==
  ASSUME IInv, NEW p \in Publishers, Publishing(p), NEW j \in Publishes,
         pub' = [pub EXCEPT ![p] = j], UNCHANGED overlap,
         p \notin overlap /\ j.step \in {"sum", "release"} =>
           LET b == dir'[j.agent].bin
           IN /\ b \in Content /\ b.agent = j.agent /\ b.version = j.version
              /\ j.step = "release" => dir'[j.agent].sums = b
  PROVE  pub' \in [Publishers -> Publishes \cup {Idle}] /\ PublishUnderWay'
<1>1. pub \in [Publishers -> Publishes \cup {Idle}] /\ PublishUnderWay
  BY DEF IInv, TypeOK
<1>2. pub'[p] = j /\ \A q \in Publishers \ {p} : pub'[q] = pub[q]
  BY <1>1
<1>3. pub' \in [Publishers -> Publishes \cup {Idle}]
  BY <1>1
<1>4. \A q \in Publishers : Publishing(q)' => Publishing(q)
  BY <1>2 DEF Publishing
<1>5. ASSUME NEW a \in Publishers, NEW q \in Publishers \ {a}, Publishing(a)', Publishing(q)'
      PROVE  a \in overlap'
  BY <1>1, <1>4, <1>5 DEF PublishUnderWay
<1>6. ASSUME NEW a \in Publishers, a # p, a \notin overlap', pub'[a].step \in {"sum", "release"}
      PROVE  FALSE
  <2>1. Publishing(a)
    BY <1>2, <1>6 DEF Publishing
  <2> QED  BY <1>1, <1>6, <2>1 DEF PublishUnderWay
<1>7. ASSUME NEW a \in Publishers, a \notin overlap', pub'[a].step \in {"sum", "release"}
      PROVE  LET b == dir'[pub'[a].agent].bin
             IN /\ b \in Content /\ b.agent = pub'[a].agent /\ b.version = pub'[a].version
                /\ pub'[a].step = "release" => dir'[pub'[a].agent].sums = b
  <2>1. a = p  BY <1>6, <1>7
  <2> QED  BY <1>2, <1>7, <2>1
<1>8. PublishUnderWay'
  BY <1>5, <1>7 DEF PublishUnderWay
<1> QED  BY <1>3, <1>8

LEMMA PublishFailsSafe ==
  ASSUME IInv, NEW p \in Publishers, PublishFails(p)
  PROVE  IInv'
<1> DEFINE j == [step |-> "failed"]
<1>1. /\ Publishing(p) /\ pub' = [pub EXCEPT ![p] = j]
      /\ UNCHANGED <<repo, created, dir, builds, inst, bin, deleted, overlap, issued, ran>>
  BY DEF PublishFails
<1>2. faults' \in Nat
  BY DEF PublishFails, IInv, TypeOK
<1>3. j \in Publishes /\ j.step = "failed"
  BY DEF Publishes
<1> HIDE DEF j
<1>4. pub' \in [Publishers -> Publishes \cup {Idle}] /\ PublishUnderWay'
  BY <1>1, <1>3, PublisherStep
<1>5. TypeOK'
  BY <1>1, <1>2, <1>4 DEF IInv, TypeOK
<1> QED  BY <1>1, <1>4, <1>5, InstallersKept, ReleasesKept DEF IInv

LEMMA CompileSafe ==
  ASSUME IInv, NEW p \in Publishers, NEW a \in Agents, Compile(p, a)
  PROVE  IInv'
<1> DEFINE c == Output(a, pub[p].version)
           j == [step |-> "sum", agent |-> a, todo |-> pub[p].todo \ {a},
                 version |-> pub[p].version]
<1>1. /\ pub[p].step = "compile"
      /\ builds' = builds + 1 /\ dir' = [dir EXCEPT ![a].bin = c]
      /\ pub' = [pub EXCEPT ![p] = j]
      /\ UNCHANGED <<repo, created, inst, bin, faults, deleted, overlap, issued, ran>>
  BY DEF Compile
<1>2. TypeOK
  BY DEF IInv
<1>3. pub[p] \in Publishes /\ pub[p].todo \subseteq Agents /\ pub[p].version \in Versions
  BY <1>1, <1>2 DEF TypeOK, Publishes, Idle
<1>4. builds \in Nat /\ builds' \in Nat
  BY <1>1, <1>2 DEF TypeOK
<1>5. c \in Content /\ c.agent = a /\ c.version = pub[p].version
  BY <1>3, <1>4 DEF Output, Content
<1>6. j \in Publishes /\ j.step = "sum" /\ j.agent = a /\ j.version = pub[p].version
  BY <1>3 DEF Publishes
<1>7. Publishing(p)
  BY <1>1 DEF Publishing
<1> HIDE DEF c, j
<1>8. dir' \in [Agents -> [bin : Content \cup {None}, sums : Content \cup {None}]]
      /\ dir'[a].bin = c
  BY <1>1, <1>2, <1>5 DEF TypeOK
<1>9. pub' \in [Publishers -> Publishes \cup {Idle}] /\ PublishUnderWay'
  BY <1>1, <1>5, <1>6, <1>7, <1>8, PublisherStep
<1>10. TypeOK'
  BY <1>1, <1>2, <1>4, <1>8, <1>9 DEF TypeOK
<1> QED  BY <1>1, <1>9, <1>10, InstallersKept, ReleasesKept DEF IInv

LEMMA SumSafe ==
  ASSUME IInv, NEW p \in Publishers, Sum(p)
  PROVE  IInv'
<1> DEFINE j == [pub[p] EXCEPT !.step = "release"]
           a == pub[p].agent
<1>1. /\ pub[p].step = "sum" /\ dir' = [dir EXCEPT ![a].sums = dir[a].bin]
      /\ pub' = [pub EXCEPT ![p] = j]
      /\ UNCHANGED <<repo, created, builds, inst, bin, faults, deleted, overlap, issued, ran>>
  BY DEF Sum
<1>2. TypeOK /\ PublishUnderWay
  BY DEF IInv
<1>3. pub[p] \in [step : {"sum", "release"}, agent : Agents, todo : SUBSET Agents,
                  version : Versions]
  BY <1>1, <1>2 DEF TypeOK, Publishes, Idle
<1>4. j \in Publishes /\ j.step = "release" /\ j.agent = a /\ j.version = pub[p].version
      /\ a \in Agents
  BY <1>3 DEF Publishes
<1>5. Publishing(p)
  BY <1>1 DEF Publishing
<1> HIDE DEF j
<1>6. dir' \in [Agents -> [bin : Content \cup {None}, sums : Content \cup {None}]]
      /\ dir'[a].bin = dir[a].bin /\ dir'[a].sums = dir[a].bin
  BY <1>1, <1>2, <1>4 DEF TypeOK
<1>7. p \notin overlap => /\ dir[a].bin \in Content /\ dir[a].bin.agent = a
                          /\ dir[a].bin.version = pub[p].version
  BY <1>1, <1>2 DEF PublishUnderWay
<1>8. pub' \in [Publishers -> Publishes \cup {Idle}] /\ PublishUnderWay'
  BY <1>1, <1>4, <1>5, <1>6, <1>7, PublisherStep
<1>9. TypeOK'
  BY <1>1, <1>2, <1>6, <1>8 DEF TypeOK
<1> QED  BY <1>1, <1>8, <1>9, InstallersKept, ReleasesKept DEF IInv

LEMMA CreateReleaseSafe ==
  ASSUME IInv, NEW p \in Publishers, CreateRelease(p)
  PROVE  IInv'
<1> DEFINE a == pub[p].agent
           r == [id |-> created + 1, agent |-> a, version |-> pub[p].version,
                 binary |-> dir[a].bin, sums |-> dir[a].sums, by |-> p]
           j == IF pub[p].todo = {} THEN [step |-> "done"]
                ELSE [step |-> "compile", todo |-> pub[p].todo, version |-> pub[p].version]
<1>1. /\ pub[p].step = "release" /\ repo' = <<r>> \o repo /\ created' = created + 1
      /\ issued' = issued \cup {r}
      /\ pub' = [pub EXCEPT ![p] = j]
      /\ UNCHANGED <<dir, builds, inst, bin, faults, deleted, overlap, ran>>
  BY DEF CreateRelease
<1>2. TypeOK /\ PublishUnderWay /\ ReleaseIsAsTagged /\ ListedWereIssued
  BY DEF IInv
<1>3. pub[p] \in [step : {"sum", "release"}, agent : Agents, todo : SUBSET Agents,
                  version : Versions]
  <2>1. pub[p].step = "release" /\ pub[p] \in Publishes \cup {Idle}
    BY <1>1, <1>2 DEF TypeOK
  <2> HIDE DEF r, j
  <2> QED  BY <2>1 DEF Publishes, Idle
<1>4. created \in Nat /\ created' \in Nat /\ a \in Agents
      /\ dir[a] \in [bin : Content \cup {None}, sums : Content \cup {None}]
  <2>1. created \in Nat /\ created' = created + 1 /\ a \in Agents
    BY <1>1, <1>2, <1>3 DEF TypeOK
  <2>2. dir[a] \in [bin : Content \cup {None}, sums : Content \cup {None}]
    BY <1>2, <2>1 DEF TypeOK
  <2> QED  BY <2>1, <2>2
<1>5. r \in Release /\ r.by = p /\ r.agent = a /\ r.version = pub[p].version
      /\ r.binary = dir[a].bin /\ r.sums = dir[a].sums
  BY <1>3, <1>4 DEF Release, Names
<1>6. j \in Publishes /\ j.step \in {"done", "compile"}
  BY <1>3 DEF Publishes
<1>7. Publishing(p)
  BY <1>1 DEF Publishing
<1>8. p \notin overlap => /\ r.binary.agent = r.agent /\ r.binary.version = r.version
                          /\ r.sums = r.binary
  BY <1>1, <1>2, <1>5 DEF PublishUnderWay
<1> HIDE DEF r, j
<1>9. repo \in Seq(Release) /\ <<r>> \in Seq(Release)
  BY <1>2, <1>5 DEF TypeOK
<1>10. repo' \in Seq(Release)
       /\ \A k \in DOMAIN repo' : repo'[k] = r \/ \E n \in DOMAIN repo : repo'[k] = repo[n]
  <2>1. repo' \in Seq(Release) /\ Len(repo') = Len(repo) + 1
    BY <1>1, <1>9
  <2>2. ASSUME NEW k \in DOMAIN repo'
        PROVE  repo'[k] = r \/ \E n \in DOMAIN repo : repo'[k] = repo[n]
    <3>1. k \in 1..Len(repo) + 1
      BY <2>1
    <3>2. CASE k = 1  BY <1>1, <1>9, <3>2
    <3>3. CASE k # 1
      <4>1. k - 1 \in DOMAIN repo  BY <1>9, <3>1, <3>3
      <4>2. repo'[k] = repo[k - 1]  BY <1>1, <1>9, <3>1, <3>3
      <4> QED  BY <4>1, <4>2
    <3> QED  BY <3>2, <3>3
  <2> QED  BY <2>1, <2>2
<1>11. ReleaseIsAsTagged'
  BY <1>1, <1>2, <1>5, <1>8, <1>10 DEF ReleaseIsAsTagged
<1>12. pub' \in [Publishers -> Publishes \cup {Idle}] /\ PublishUnderWay'
  BY <1>1, <1>6, <1>7, PublisherStep
<1>13. TypeOK'
  <2>1. issued' \subseteq Release
    BY <1>1, <1>2, <1>5 DEF TypeOK
  <2> QED  BY <1>1, <1>2, <1>4, <1>10, <1>12, <2>1 DEF TypeOK
<1>14. ListedWereIssued'
  BY <1>1, <1>2, <1>10 DEF ListedWereIssued, Listed
<1> QED  BY <1>1, <1>11, <1>12, <1>13, <1>14, InstallersKept DEF IInv

LEMMA DeleteReleaseSafe ==
  ASSUME IInv, NEW k \in DOMAIN repo, DeleteRelease(k)
  PROVE  IInv'
<1>1. /\ repo' = [n \in 1..Len(repo) - 1 |-> repo[IF n < k THEN n ELSE n + 1]]
      /\ faults' = faults + 1 /\ deleted' = deleted + 1
      /\ UNCHANGED <<created, dir, builds, pub, inst, bin, overlap, issued, ran>>
  BY DEF DeleteRelease
<1>2. TypeOK /\ PublishUnderWay /\ ReleaseIsAsTagged /\ ListedWereIssued
  BY DEF IInv
<1>3. repo \in Seq(Release) /\ Len(repo) \in Nat /\ Len(repo) >= 1 /\ DOMAIN repo = 1..Len(repo)
  BY <1>2 DEF TypeOK
<1>4. \A n \in 1..Len(repo) - 1 : (IF n < k THEN n ELSE n + 1) \in DOMAIN repo
  BY <1>3
<1>5. DOMAIN repo' = 1..Len(repo) - 1
      /\ \A n \in DOMAIN repo' : \E m \in DOMAIN repo : repo'[n] = repo[m]
  BY <1>1, <1>4
<1>6. repo' \in Seq(Release)
  <2>1. \A n \in 1..Len(repo) - 1 : repo'[n] \in Release
    BY <1>3, <1>5
  <2>2. repo' \in [1..Len(repo) - 1 -> Release]
    BY <1>1, <2>1
  <2>3. Len(repo) - 1 \in Nat
    BY <1>3
  <2> QED  BY <2>2, <2>3
<1>7. ReleaseIsAsTagged'
  BY <1>1, <1>2, <1>5 DEF ReleaseIsAsTagged
<1>8. TypeOK'
  BY <1>1, <1>2, <1>6 DEF TypeOK
<1>9. PublishUnderWay'
  BY <1>1, <1>2 DEF PublishUnderWay, Publishing
<1>10. ListedWereIssued'
  BY <1>1, <1>2, <1>5 DEF ListedWereIssued, Listed
<1> QED  BY <1>1, <1>7, <1>8, <1>9, <1>10, InstallersKept DEF IInv

(* ---- the theorems ---- *)

LEMMA InitSafe == Init => IInv
<1> SUFFICES ASSUME Init PROVE IInv
  OBVIOUS
<1>1. repo \in Seq(Release) /\ \A k \in DOMAIN repo : repo[k].by = None
  <2>1. CASE repo = <<>>  BY <2>1
  <2>2. ASSUME NEW h \in Handmade, repo = <<h>> PROVE <1>1
    BY <2>2, ReleasesAssumption
  <2> QED  BY <2>1, <2>2 DEF Init
<1>2. TypeOK
  <2>1. created \in Nat  BY <1>1 DEF Init
  <2>2. issued \subseteq Release  BY <1>1 DEF Init
  <2> QED  BY <1>1, <2>1, <2>2 DEF Init, TypeOK, Names
<1>3. InstallUnderWay
  BY DEF Init, InstallUnderWay, Right, Idle
<1>4. PublishUnderWay
  BY DEF Init, PublishUnderWay, Publishing, Idle
<1>5. ReleaseIsAsTagged
  BY <1>1, ReleasesAssumption DEF ReleaseIsAsTagged
<1>6. OnlyVerifiedRuns
  <2>1. None \notin Content /\ None # Torn
    BY ReleasesAssumption
  <2> QED  BY <2>1 DEF Init, OnlyVerifiedRuns, VerifiedRuns, PlacedWasRun, TornIsReported
<1>7. ListedWereIssued
  BY DEF Init, ListedWereIssued, Listed
<1> QED  BY <1>2, <1>3, <1>4, <1>5, <1>6, <1>7 DEF IInv

LEMMA OutcomeSafe == ASSUME IInv, Outcome, TornIsReported' PROVE IInv'
<1>1. ReleaseIsAsTagged'
  BY DEF IInv, Outcome, ReleaseIsAsTagged, shop
<1>2. PublishUnderWay'
  BY DEF IInv, Outcome, PublishUnderWay, Publishing, shop
<1>3. TypeOK'
  BY DEF IInv, Outcome, TypeOK, shop
<1>4. ListedWereIssued'
  BY DEF IInv, Outcome, ListedWereIssued, Listed, shop
<1> QED  BY <1>1, <1>2, <1>3, <1>4 DEF IInv, Outcome, OnlyVerifiedRuns

LEMMA StepSafe == IInv /\ [Next]_vars => IInv'
<1> SUFFICES ASSUME IInv, [Next]_vars PROVE IInv'
  OBVIOUS
<1>1. CASE UNCHANGED vars
  <2>1. UNCHANGED <<shop, inst, bin, faults, deleted, issued, ran>>
    BY <1>1 DEF vars, shop
  <2>2. Outcome /\ TornIsReported'
    BY <2>1, InstallersKept DEF Outcome, IInv, TypeOK, OnlyVerifiedRuns, shop
  <2> QED  BY <2>2, OutcomeSafe
<1>2. CASE \E p \in Publishers, as \in (SUBSET Agents) \ {{}}, v \in Versions :
             StartPublish(p, as, v)
  BY <1>2, StartPublishSafe
<1>3. CASE \E p \in Publishers, a \in Agents : Compile(p, a)
  BY <1>3, CompileSafe
<1>4. CASE \E p \in Publishers : Sum(p) \/ CreateRelease(p) \/ PublishFails(p)
  BY <1>4, SumSafe, CreateReleaseSafe, PublishFailsSafe
<1>5. CASE \E k \in DOMAIN repo : DeleteRelease(k)
  BY <1>5, DeleteReleaseSafe
<1>6. CASE \E i \in Installers, o \in Orders : StartInstall(i, o)
  BY <1>6, StartInstallSafe, TornAtStart, OutcomeSafe
<1>7. CASE \E i \in Installers : InstallStep(i)
  BY <1>7, InstallSafe, TornKept, OutcomeSafe
<1> QED  BY <1>1, <1>2, <1>3, <1>4, <1>5, <1>6, <1>7 DEF Next

\* Installers work on releases of their agents and run what they have compared with
\* checksums of the tag; a torn binary has somebody to blame; publishers alone in
\* build/publish find there what they put (publish.go, install.go, checksum.go): what
\* the two properties rest on.
THEOREM Invariance == Spec => []IInv
BY InitSafe, StepSafe, PTL DEF Spec

\* runRemoteInstall runs nothing but what the checksums of a release made under the
\* tag it resolved name, of that very release when it has a token, or what it was told
\* not to check: also when the release is replaced between its requests.  It installs
\* nothing that has not been run, and a binary that a failing copy leaves torn belongs
\* to an install that reports the failure or still runs.
THEOREM RunsOnlyVerified == Spec => []OnlyVerifiedRuns
<1>1. IInv => OnlyVerifiedRuns
  BY DEF IInv
<1> QED  BY <1>1, Invariance, PTL

\* A publish alone in build/publish makes releases of what their tags say.
THEOREM TaggedAsBuilt == Spec => []ReleaseIsAsTagged
<1>1. IInv => ReleaseIsAsTagged
  BY DEF IInv
<1> QED  BY <1>1, Invariance, PTL

(* ---- installs that begin while releases are made ---- *)

\* A step of one installer that leaves it a job abreast of the list.
LEMMA JobAbreast ==
  ASSUME TypeOK, InstallsAbreast, UNCHANGED <<repo, created, deleted>>,
         NEW i \in Installers, NEW j, To(i, j), Abreast(j)
  PROVE  InstallsAbreast'
<1>1. inst' = [inst EXCEPT ![i] = j] /\ inst \in [Installers -> Installs \cup {Idle}]
  BY DEF To, TypeOK
<1>2. ASSUME NEW k \in Installers PROVE Abreast(inst'[k])
  <2>1. CASE k = i  BY <2>1, <1>1
  <2>2. CASE k # i
    BY <2>2, <1>1 DEF InstallsAbreast
  <2> QED  BY <2>1, <2>2
<1>3. Ordered'
  BY DEF InstallsAbreast, Ordered
<1>4. \A k \in Installers : Abreast(inst[k])'
  BY <1>2 DEF Abreast, Current, Counted, Ahead
<1> QED  BY <1>3, <1>4 DEF InstallsAbreast

\* Going on with the next agent after one that failed, or that is installed.
LEMMA NextAbreast ==
  ASSUME IInv, InstallsAbreast, UNCHANGED <<repo, created, deleted>>,
         NEW i \in Installers, NEW ok \in BOOLEAN, inst[i] \in Installs, NextAgent(i, ok),
         inst[i].step \in {"resolve", "download", "sums", "describe", "place", "placing"},
         ok => inst[i].step = "placing"
  PROVE  InstallsAbreast'
<1> DEFINE o == inst[i]
<1>1. PICK j \in Installs :
           /\ To(i, j)
           /\ j.step = IF o.todo # {} THEN "pick"
                       ELSE IF ok /\ o.failed = {} THEN "ok" ELSE "error"
           /\ j.failed = IF ok THEN o.failed ELSE o.failed \cup {o.agent}
           /\ j.installed = IF ok THEN o.installed \cup {o.rel} ELSE o.installed
           /\ j.todo = o.todo /\ j.page = 1
           /\ j.all = o.all /\ j.version = o.version
           /\ j.heads = o.heads /\ j.gone = o.gone
  BY NextFields
<1>2. o # Idle /\ Abreast(o)
  BY DEF Idle, InstallsAbreast
<1>3. ok => o.rel.agent = o.agent
  BY DEF IInv, InstallUnderWay, Right
<1> HIDE DEF o
<1>4. j.step \in {"pick", "ok", "error"}
  BY <1>1
<1>5. j.page >= 1 /\ j.gone <= deleted
  BY <1>1, <1>2 DEF Abreast
<1>6. j.step = "ok" => j.failed = {} /\ j.todo = {}
  BY <1>1
<1>7. ASSUME Current(o) PROVE Current(j)
  <2>1. ASSUME NEW r \in j.installed, r.agent \in Agents, NEW id \in j.heads[r.agent]
        PROVE  r.id >= id
    <3>1. CASE r \in o.installed  BY <3>1, <2>1, <1>1, <1>7 DEF Current
    <3>2. CASE r \notin o.installed
      <4>1. ok /\ r = o.rel /\ o.step = "placing"  BY <3>2, <2>1, <1>1 DEF o
      <4> QED  BY <4>1, <2>1, <1>1, <1>3, <1>7 DEF Current
    <3> QED  BY <3>1, <3>2
  <2> QED  BY <2>1, <1>1, <1>4, <1>7 DEF Current
<1>8. ASSUME NEW a \in Agents, Counted(o, a) PROVE Counted(j, a)
  <2>1. o.step \notin {"list", "error"}  BY DEF o
  <2>2. o.failed # {} \/ a \in o.todo \/ o.agent = a \/ \E r \in o.installed : r.agent = a
    BY <2>1, <1>8 DEF Counted
  <2>3. CASE o.failed # {}  BY <2>3, <1>1, <1>4 DEF Counted
  <2>4. CASE a \in o.todo  BY <2>4, <1>1, <1>4 DEF Counted
  <2>5. CASE \E r \in o.installed : r.agent = a
    BY <2>5, <1>1, <1>4 DEF Counted
  <2>6. CASE o.agent = a
    <3>1. CASE ok
      <4>1. o.rel \in j.installed /\ o.rel.agent = a  BY <3>1, <2>6, <1>1, <1>3
      <4> QED  BY <4>1, <1>4 DEF Counted
    <3>2. CASE ~ok
      <4>1. j.failed # {}  BY <3>2, <1>1
      <4> QED  BY <4>1, <1>4 DEF Counted
    <3> QED  BY <3>1, <3>2
  <2> QED  BY <2>2, <2>3, <2>4, <2>5, <2>6
<1>9. Abreast(j)
  BY <1>1, <1>2, <1>5, <1>6, <1>7, <1>8 DEF Abreast
<1> QED  BY <1>1, <1>9, JobAbreast DEF IInv

\* A job that differs only in what no promise of the list is about.
LEMMA LikeAbreast ==
  ASSUME NEW o \in Installs, NEW j \in Installs, Abreast(o),
         \/ j.step = o.step /\ j.step # "ok" /\ j.page = o.page
         \/ /\ {o.step, j.step} \subseteq {"download", "sums", "describe", "place", "placing"}
            /\ j.page = 1,
         j.agent = o.agent, j.rel = o.rel, j.todo = o.todo, j.seen = o.seen,
         j.failed = o.failed, j.installed = o.installed, j.all = o.all,
         j.version = o.version, j.heads = o.heads, j.gone = o.gone
  PROVE  Abreast(j)
<1>1. o # Idle
  BY DEF Installs, Idle, Steps
<1>2. j.page >= 1 /\ j.gone <= deleted /\ j.step # "ok"
  <2>1. o.page >= 1 /\ o.gone <= deleted  BY <1>1 DEF Abreast
  <2> QED  BY <2>1
<1>3. Current(o) => Current(j)
  BY DEF Current
<1>4. ASSUME NEW a \in Agents, Counted(o, a) PROVE Counted(j, a)
  BY <1>4 DEF Counted
<1> QED  BY <1>1, <1>2, <1>3, <1>4 DEF Abreast

LEMMA StepsAbreast ==
  ASSUME IInv, InstallsAbreast, NEW i \in Installers, inst[i] \in Installs,
         \/ \E damaged \in BOOLEAN : Download(i, damaged)
         \/ Verify(i) \/ Describe(i) \/ PlaceStart(i) \/ PlaceEnd(i) \/ PlaceFails(i)
         \/ Transient(i) \/ Refused(i)
  PROVE  InstallsAbreast'
<1> DEFINE o == inst[i]
<1>1. UNCHANGED <<repo, created, deleted>> /\ o # Idle /\ Abreast(o) /\ TypeOK
  <2>1. UNCHANGED <<repo, created, deleted>>
    BY DEF Download, Verify, Describe, PlaceStart, PlaceEnd, PlaceFails, Transient, Refused, shop
  <2>2. o # Idle
    BY DEF Idle, Installs, Steps
  <2> QED  BY <2>1, <2>2 DEF InstallsAbreast, IInv
<1>2. ASSUME NEW step \in {"sums", "describe", "place", "placing"},
             o.step \in {"download", "sums", "describe", "place"},
             To(i, Start(i, step))
      PROVE  InstallsAbreast'
  <2> DEFINE j == Start(i, step)
  <2>1. /\ j \in Installs /\ j.step = step /\ j.page = 1
        /\ j.agent = o.agent /\ j.rel = o.rel /\ j.todo = o.todo /\ j.seen = o.seen
        /\ j.failed = o.failed /\ j.installed = o.installed /\ j.all = o.all
        /\ j.version = o.version /\ j.heads = o.heads /\ j.gone = o.gone
    BY DEF Installs, Start, Steps
  <2>2. To(i, j)
    BY <1>2
  <2> HIDE DEF j
  <2>3. Abreast(j)
    <3> HIDE DEF o
    <3> QED  BY <1>1, <1>2, <2>1, LikeAbreast DEF o
  <2> QED  BY <1>1, <2>2, <2>3, JobAbreast
<1>3. ASSUME NEW damaged \in BOOLEAN, Download(i, damaged) PROVE InstallsAbreast'
  <2>1. o.step = "download" /\ o.rel \in Release
    BY <1>3 DEF Download, IInv, InstallUnderWay, Right
  <2>2. PICK r \in Served(i) :
          To(i, [Start(i, IF o.skip THEN "describe" ELSE "sums")
                 EXCEPT !.tmp = IF damaged THEN Damaged ELSE r.binary])
    BY <1>3 DEF Download
  <2> DEFINE step == IF o.skip THEN "describe" ELSE "sums"
             got == IF damaged THEN Damaged ELSE r.binary
             s == Start(i, step)
             j == [s EXCEPT !.tmp = got]
  <2>3. To(i, j) /\ step \in {"sums", "describe"}
    BY <2>2
  <2>4. got \in Content \cup {None, Damaged}
    <3>1. r \in Release
      BY <2>1, ServedAreListed
    <3> QED  BY <3>1 DEF Release
  <2>5. /\ s \in Installs /\ s.step = step /\ s.page = 1
        /\ s.agent = o.agent /\ s.rel = o.rel /\ s.todo = o.todo /\ s.seen = o.seen
        /\ s.failed = o.failed /\ s.installed = o.installed /\ s.all = o.all
        /\ s.version = o.version /\ s.heads = o.heads /\ s.gone = o.gone
    <3> HIDE DEF step
    <3> QED  BY <2>3 DEF Installs, Start, Steps
  <2>6. /\ j \in Installs /\ j.step = s.step /\ j.page = s.page
        /\ j.agent = s.agent /\ j.rel = s.rel /\ j.todo = s.todo /\ j.seen = s.seen
        /\ j.failed = s.failed /\ j.installed = s.installed /\ j.all = s.all
        /\ j.version = s.version /\ j.heads = s.heads /\ j.gone = s.gone
    <3> HIDE DEF s, got
    <3> QED  BY <2>4, <2>5 DEF Installs
  <2> HIDE DEF j, s, step
  <2>7. Abreast(j)
    <3> HIDE DEF o
    <3> QED  BY <1>1, <2>1, <2>3, <2>5, <2>6, LikeAbreast DEF o
  <2> QED  BY <1>1, <2>3, <2>7, JobAbreast
<1>4. ASSUME NEW ok \in BOOLEAN, NextAgent(i, ok), ok => o.step = "placing",
             o.step \in {"resolve", "download", "sums", "describe", "place", "placing"}
      PROVE  InstallsAbreast'
  BY <1>1, <1>4, NextAbreast
<1>5. ASSUME Verify(i) \/ Describe(i) \/ PlaceStart(i) \/ PlaceEnd(i) \/ PlaceFails(i)
      PROVE  InstallsAbreast'
  <2>1. /\ o.step \in {"sums", "describe", "place", "placing"}
        /\ \/ \E ok \in BOOLEAN : NextAgent(i, ok) /\ (ok => o.step = "placing")
           \/ o.step = "sums" /\ To(i, Start(i, "describe"))
           \/ o.step = "describe" /\ To(i, Start(i, "place"))
           \/ o.step = "place" /\ To(i, Start(i, "placing"))
    BY <1>5 DEF Verify, Describe, PlaceStart, PlaceEnd, PlaceFails
  <2> QED  BY <2>1, <1>2, <1>4
<1>6. ASSUME Asking(i), Lost(i) PROVE InstallsAbreast'
  <2>1. CASE o.step = "list"
    <3> DEFINE j == [o EXCEPT !.step = "error"]
    <3>1. /\ j \in Installs /\ j.step = "error" /\ j.page = o.page /\ j.heads = o.heads
          /\ j.installed = o.installed /\ j.version = o.version /\ j.gone = o.gone
      BY DEF Installs, Steps
    <3>2. To(i, j)
      BY <2>1, <1>6 DEF Lost
    <3> HIDE DEF j, o
    <3>3. Abreast(j)
      BY <1>1, <3>1 DEF Abreast, Current, Counted
    <3> QED  BY <1>1, <3>2, <3>3, JobAbreast
  <2>2. CASE o.step # "list"
    BY <2>2, <1>4, <1>6 DEF Lost, Asking
  <2> QED  BY <2>1, <2>2
<1>7. ASSUME Asking(i), To(i, [o EXCEPT !.tries = @ + 1]) PROVE InstallsAbreast'
  <2> DEFINE n == o.tries + 1
             j == [o EXCEPT !.tries = n]
  <2>1. n \in Nat
    BY DEF Installs
  <2>2. /\ j \in Installs /\ j.step = o.step /\ j.page = o.page
        /\ j.agent = o.agent /\ j.rel = o.rel /\ j.todo = o.todo /\ j.seen = o.seen
        /\ j.failed = o.failed /\ j.installed = o.installed /\ j.all = o.all
        /\ j.version = o.version /\ j.heads = o.heads /\ j.gone = o.gone
    <3> HIDE DEF n
    <3> QED  BY <2>1 DEF Installs
  <2>3. To(i, j) /\ o.step # "ok"
    BY <1>7 DEF Asking
  <2> HIDE DEF j
  <2>4. Abreast(j)
    <3> HIDE DEF o
    <3> QED  BY <1>1, <2>2, <2>3, LikeAbreast DEF o
  <2> QED  BY <1>1, <2>3, <2>4, JobAbreast
<1>8. ASSUME Transient(i) \/ Refused(i) PROVE InstallsAbreast'
  BY <1>6, <1>7, <1>8 DEF Transient, Refused
<1> QED  BY <1>3, <1>5, <1>8

LEMMA PickAbreast ==
  ASSUME IInv, InstallsAbreast, NEW i \in Installers, inst[i] \in Installs,
         NEW a \in Names, Pick(i, a)
  PROVE  InstallsAbreast'
<1> DEFINE o == inst[i]
           s == Start(i, "resolve")
           j == [s EXCEPT !.agent = a, !.todo = o.todo \ {a}, !.rel = None, !.tmp = None]
<1>1. UNCHANGED <<repo, created, deleted>> /\ o.step = "pick" /\ a \in o.todo
      /\ o # Idle /\ Abreast(o) /\ TypeOK
  BY DEF Pick, shop, Idle, InstallsAbreast, IInv
<1>2. /\ s \in Installs /\ s.step = "resolve" /\ s.page = 1 /\ s.todo = o.todo
      /\ s.seen = o.seen /\ s.failed = o.failed /\ s.installed = o.installed /\ s.all = o.all
      /\ s.version = o.version /\ s.heads = o.heads /\ s.gone = o.gone
  BY DEF Installs, Start, Steps
<1>3. To(i, j)
  <2>1. To(i, [s EXCEPT !.agent = a, !.todo = @ \ {a}, !.rel = None, !.tmp = None])
    BY DEF Pick
  <2>2. [s EXCEPT !.agent = a, !.todo = @ \ {a}, !.rel = None, !.tmp = None] = j
    <3> HIDE DEF s, o
    <3> QED  BY <1>2
  <2> HIDE DEF j, s
  <2> QED  BY <2>1, <2>2
<1>4. /\ j.step = s.step /\ j.agent = a /\ j.page = s.page
      /\ j.todo = o.todo \ {a}
      /\ j.failed = s.failed /\ j.installed = s.installed /\ j.all = s.all
      /\ j.version = s.version /\ j.heads = s.heads /\ j.gone = s.gone
  <2> HIDE DEF s, o
  <2> QED  BY <1>2 DEF Installs
<1> HIDE DEF j, s, o
<1>5. Current(o) => Current(j)
  BY <1>2, <1>4 DEF Current
<1>6. ASSUME NEW b \in Agents, Counted(o, b) PROVE Counted(j, b)
  <2>1. o.failed # {} \/ b \in o.todo \/ \E r \in o.installed : r.agent = b
    BY <1>1, <1>6 DEF Counted
  <2>2. j.step = "resolve"  BY <1>2, <1>4
  <2>3. CASE b = a  BY <2>2, <2>3, <1>4 DEF Counted
  <2>4. CASE b # a  BY <2>1, <2>2, <2>4, <1>2, <1>4 DEF Counted
  <2> QED  BY <2>3, <2>4
<1>7. Abreast(j)
  BY <1>1, <1>2, <1>4, <1>5, <1>6 DEF Abreast
<1> QED  BY <1>1, <1>3, <1>7, JobAbreast

\* What is ahead of a page is on it or ahead of the next.
LEMMA PageOrNext ==
  ASSUME TypeOK, NEW a, NEW k \in Nat, NEW id \in Ahead(a, k)
  PROVE  \/ \E r \in Of(Page(k), a) : r.id = id
         \/ id \in Ahead(a, k + 1) /\ More(k)
<1>1. PICK n \in DOMAIN repo : (k - 1) * PageSize < n /\ repo[n].agent = a /\ repo[n].id = id
  BY DEF Ahead
<1>2. DOMAIN repo = 1..Len(repo) /\ Len(repo) \in Nat /\ n \in Nat
  BY DEF TypeOK
<1>3. k * PageSize \in Nat
  BY ReleasesAssumption
<1>4. CASE n <= k * PageSize
  <2>1. repo[n] \in Page(k)
    BY <1>1, <1>4 DEF Page
  <2> QED  BY <1>1, <2>1 DEF Of
<1>5. CASE ~(n <= k * PageSize)
  <2>1. k * PageSize < n /\ Len(repo) > k * PageSize
    BY <1>2, <1>3, <1>5
  <2>2. (k + 1) - 1 = k
    OBVIOUS
  <2>3. id \in Ahead(a, k + 1)
    BY <1>1, <2>1, <2>2 DEF Ahead
  <2> QED  BY <2>1, <2>3 DEF More
<1> QED  BY <1>4, <1>5

\* Of a release on page k and those that are ahead of it, the newest on the page is
\* the newest: the list is ordered.
LEMMA NewestAhead ==
  ASSUME TypeOK, Ordered, NEW a, NEW k \in Nat, NEW r \in Newest(Of(Page(k), a)),
         NEW id \in Ahead(a, k)
  PROVE  r.id >= id
<1>1. PICK n \in DOMAIN repo : (k - 1) * PageSize < n /\ repo[n].agent = a /\ repo[n].id = id
  BY DEF Ahead
<1>2. PICK m \in DOMAIN repo : m <= k * PageSize /\ repo[m] = r
  BY DEF Newest, Of, Page
<1>3. m \in Nat /\ n \in Nat /\ repo[n] \in Release /\ r \in Release
  BY <1>2 DEF TypeOK
<1>4. r.id \in Nat /\ id \in Nat /\ k * PageSize \in Nat
  BY <1>1, <1>3, ReleasesAssumption DEF Release
<1>5. CASE n <= k * PageSize
  <2>1. repo[n] \in Of(Page(k), a)
    BY <1>1, <1>5 DEF Page, Of
  <2> QED  BY <1>1, <2>1 DEF Newest
<1>6. CASE ~(n <= k * PageSize)
  <2>1. m < n
    BY <1>2, <1>3, <1>4, <1>6
  <2>2. id < r.id
    BY <1>1, <1>2, <2>1 DEF Ordered
  <2> QED  BY <1>4, <2>2
<1> QED  BY <1>5, <1>6

LEMMA ResolveAbreast ==
  ASSUME IInv, InstallsAbreast, NEW i \in Installers, inst[i] \in Installs, Resolve(i)
  PROVE  InstallsAbreast'
<1> DEFINE o == inst[i]
           page == Of(Page(o.page), o.agent)
           here == IF o.version = Latest THEN page
                   ELSE {r \in Listed : Tag(r) = <<o.agent, o.version>>}
<1>1. /\ UNCHANGED <<repo, created, deleted>> /\ o.step = "resolve" /\ o # Idle
      /\ Abreast(o) /\ TypeOK /\ Ordered
  BY DEF Resolve, shop, Idle, InstallsAbreast, IInv
<1>2. o.page \in Nat /\ \A r \in here : r \in Release
  <2>1. o.page \in Nat  BY DEF Installs
  <2> QED  BY <1>1, <2>1, ListedAreReleases DEF Of
<1>3. ASSUME NextAgent(i, FALSE) PROVE InstallsAbreast'
  BY <1>1, <1>3, NextAbreast
<1>4. ASSUME NEW r \in Newest(here), To(i, [Start(i, "download") EXCEPT !.rel = r])
      PROVE  InstallsAbreast'
  <2> DEFINE s == Start(i, "download")
             j == [s EXCEPT !.rel = r]
  <2>1. r \in Release
    BY <1>2 DEF Newest
  <2>2. /\ s \in Installs /\ s.step = "download" /\ s.page = 1 /\ s.agent = o.agent
        /\ s.todo = o.todo /\ s.failed = o.failed /\ s.installed = o.installed
        /\ s.all = o.all /\ s.version = o.version /\ s.heads = o.heads /\ s.gone = o.gone
    BY DEF Installs, Start, Steps
  <2>3. /\ j.step = "download" /\ j.page = 1 /\ j.agent = o.agent /\ j.rel = r
        /\ j.todo = o.todo /\ j.failed = o.failed /\ j.installed = o.installed
        /\ j.all = o.all /\ j.version = o.version /\ j.heads = o.heads /\ j.gone = o.gone
    <3> HIDE DEF s, o
    <3> QED  BY <2>2 DEF Installs
  <2>4. To(i, j)
    BY <1>4
  <2>5. o.version = Latest => \A id \in Ahead(o.agent, o.page) : r.id >= id
    BY <1>1, <1>2, NewestAhead
  <2> HIDE DEF j, s, here, o
  <2>6. ASSUME Current(o), o.version = Latest PROVE Current(j)
    BY <1>1, <2>3, <2>5, <2>6 DEF Current
  <2>7. ASSUME NEW a \in Agents, Counted(o, a) PROVE Counted(j, a)
    BY <1>1, <2>3, <2>7 DEF Counted
  <2>8. Abreast(j)
    BY <1>1, <2>3, <2>6, <2>7 DEF Abreast
  <2> QED  BY <1>1, <2>4, <2>8, JobAbreast
<1>5. ASSUME here = {}, o.version = Latest, To(i, [o EXCEPT !.page = @ + 1, !.tries = 0])
      PROVE  InstallsAbreast'
  <2> DEFINE m == o.page + 1
             j == [o EXCEPT !.page = m, !.tries = 0]
  <2>1. To(i, j)
    BY <1>5
  <2>2. m \in Nat /\ m >= 1
    BY <1>2
  <2>3. /\ j.step = "resolve" /\ j.page = m /\ j.agent = o.agent /\ j.rel = o.rel
        /\ j.todo = o.todo /\ j.failed = o.failed /\ j.installed = o.installed
        /\ j.all = o.all /\ j.version = o.version /\ j.heads = o.heads /\ j.gone = o.gone
    <3> HIDE DEF m
    <3> QED  BY <1>1 DEF Installs
  <2>4. \A id \in Ahead(o.agent, o.page) : id \in Ahead(o.agent, m)
    BY <1>1, <1>2, <1>5, PageOrNext
  <2> HIDE DEF j, m, here, o
  <2>5. ASSUME Current(o) PROVE Current(j)
    BY <1>1, <2>3, <2>4, <2>5 DEF Current
  <2>6. ASSUME NEW a \in Agents, Counted(o, a) PROVE Counted(j, a)
    BY <1>1, <2>3, <2>6 DEF Counted
  <2>7. Abreast(j)
    BY <1>1, <2>2, <2>3, <2>5, <2>6 DEF Abreast
  <2> QED  BY <1>1, <2>1, <2>7, JobAbreast
<1>6. \/ \E r \in Newest(here) : Found(i, r)
      \/ here = {} /\ o.version = Latest /\ To(i, [o EXCEPT !.page = @ + 1, !.tries = 0])
      \/ NextAgent(i, FALSE)
  BY Zenon DEF Resolve
<1> HIDE DEF here, o
<1>7. ASSUME NEW r \in Newest(here), Found(i, r) PROVE InstallsAbreast'
  <2>1. NextAgent(i, FALSE) \/ To(i, [Start(i, "download") EXCEPT !.rel = r])
    BY <1>7 DEF Found
  <2> QED  BY <2>1, <1>3, <1>4
<1> QED  BY <1>3, <1>5, <1>6, <1>7

LEMMA ListAbreast ==
  ASSUME IInv, InstallsAbreast, NEW i \in Installers, inst[i] \in Installs, ListPage(i)
  PROVE  InstallsAbreast'
<1> DEFINE o == inst[i]
           seen == o.seen \cup {r.agent : r \in Page(o.page)}
           named == IF seen = {Plain} THEN {Repo} ELSE seen \ {Plain}
<1>1. /\ UNCHANGED <<repo, created, deleted>> /\ o.step = "list" /\ o # Idle
      /\ Abreast(o) /\ TypeOK
  BY DEF ListPage, shop, Idle, InstallsAbreast, IInv
<1>2. o.page \in Nat
  BY DEF Installs
<1>3. ASSUME NEW a \in Agents, Counted(o, a)
      PROVE  a \in seen \/ (More(o.page) /\ Ahead(a, o.page + 1) # {})
  <2>1. CASE a \in o.seen
    BY <2>1
  <2>2. CASE a \notin o.seen
    <3>1. PICK id \in Ahead(a, o.page) : TRUE
      BY <1>1, <1>3, <2>2 DEF Counted
    <3>2. (\E r \in Of(Page(o.page), a) : r.id = id) \/ (id \in Ahead(a, o.page + 1) /\ More(o.page))
      BY <1>1, <1>2, <3>1, PageOrNext
    <3>3. ASSUME NEW r \in Of(Page(o.page), a) PROVE a \in seen
      BY DEF Of
    <3> QED  BY <3>2, <3>3
  <2> QED  BY <2>1, <2>2
<1>4. ASSUME To(i, [o EXCEPT !.seen = seen, !.page = @ + 1, !.tries = 0]) PROVE InstallsAbreast'
  <2> DEFINE m == o.page + 1
             j == [o EXCEPT !.seen = seen, !.page = m, !.tries = 0]
  <2>1. To(i, j)
    <3> HIDE DEF seen
    <3> QED  BY <1>4
  <2>2. m \in Nat /\ m >= 1
    BY <1>2
  <2>3. /\ j.step = "list" /\ j.page = m /\ j.seen = seen
        /\ j.installed = o.installed
        /\ j.all = o.all /\ j.version = o.version /\ j.heads = o.heads /\ j.gone = o.gone
    <3> HIDE DEF m, seen
    <3> QED  BY <1>1 DEF Installs
  <2>4. ASSUME NEW a \in Agents, Counted(o, a) PROVE Counted(j, a)
    <3>1. a \in seen \/ Ahead(a, m) # {}
      BY <1>3, <2>4
    <3> HIDE DEF j, seen, m
    <3> QED  BY <2>3, <3>1 DEF Counted
  <2> HIDE DEF j, m, seen, o
  <2>5. ASSUME Current(o) PROVE Current(j)
    BY <1>1, <2>3, <2>5 DEF Current
  <2>6. Abreast(j)
    BY <1>1, <2>2, <2>3, <2>4, <2>5 DEF Abreast
  <2> QED  BY <1>1, <2>1, <2>6, JobAbreast
<1>5. ASSUME ~More(o.page), NEW step \in {"error", "pick"},
             To(i, [Start(i, step) EXCEPT !.todo = named, !.seen = seen])
      PROVE  InstallsAbreast'
  <2> DEFINE s == Start(i, step)
             j == [s EXCEPT !.todo = named, !.seen = seen]
  <2>1. To(i, j)
    <3> HIDE DEF seen, named
    <3> QED  BY <1>5
  <2>2. /\ s \in Installs /\ s.step = step /\ s.page = 1 /\ s.installed = o.installed
        /\ s.all = o.all /\ s.version = o.version /\ s.heads = o.heads /\ s.gone = o.gone
    BY DEF Installs, Start, Steps
  <2>3. /\ j.step = step /\ j.page = 1 /\ j.todo = named /\ j.installed = o.installed
        /\ j.all = o.all /\ j.version = o.version /\ j.heads = o.heads /\ j.gone = o.gone
    <3> HIDE DEF s, seen, named, o
    <3> QED  BY <2>2 DEF Installs
  <2>4. ASSUME NEW a \in Agents, Counted(o, a) PROVE Counted(j, a)
    <3>1. a \in seen /\ a # Plain
      BY <1>3, <1>5, <2>4, ReleasesAssumption DEF Names
    <3>2. a \in named
      <4> HIDE DEF seen
      <4> QED  BY <3>1
    <3> HIDE DEF j, named
    <3> QED  BY <2>3, <3>2, <1>5 DEF Counted
  <2> HIDE DEF j, named, seen, s, o
  <2>5. ASSUME Current(o) PROVE Current(j)
    BY <1>1, <1>5, <2>3, <2>5 DEF Current
  <2>6. Abreast(j)
    BY <1>1, <1>5, <2>3, <2>4, <2>5 DEF Abreast
  <2> QED  BY <1>1, <2>1, <2>6, JobAbreast
<1>6. \/ To(i, [o EXCEPT !.seen = seen, !.page = @ + 1, !.tries = 0])
      \/ ~More(o.page) /\ \E step \in {"error", "pick"} :
           To(i, [Start(i, step) EXCEPT !.todo = named, !.seen = seen])
  <2> DEFINE step == IF named = {} THEN "error" ELSE "pick"
  <2>1. step \in {"error", "pick"}
    <3> HIDE DEF named
    <3> QED  OBVIOUS
  <2>2. To(i, IF More(o.page) THEN [o EXCEPT !.seen = seen, !.page = @ + 1, !.tries = 0]
              ELSE [Start(i, step) EXCEPT !.todo = named, !.seen = seen])
    BY DEF ListPage
  <2> HIDE DEF step, named, seen
  <2> QED  BY <2>1, <2>2
<1> HIDE DEF named, seen
<1> QED  BY <1>4, <1>5, <1>6

LEMMA StartAbreast ==
  ASSUME IInv, InstallsAbreast, NEW i \in Installers, NEW o \in Orders, StartInstall(i, o)
  PROVE  InstallsAbreast'
<1> DEFINE step == IF o.all THEN "list" ELSE "pick"
           j == [step |-> step, all |-> o.all, todo |-> o.agents,
            version |-> o.version, skip |-> o.skip, token |-> o.token, agent |-> None,
            rel |-> None, tmp |-> None, page |-> 1, tries |-> 0, seen |-> {}, failed |-> {},
            installed |-> {}, heads |-> Heads, gone |-> deleted]
<1>1. To(i, j) /\ UNCHANGED <<repo, created, deleted>>
  BY DEF StartInstall, shop
<1>2. /\ j.step = step /\ j.page = 1 /\ j.installed = {} /\ j.all = o.all
      /\ j.heads = Heads /\ j.gone = deleted
  OBVIOUS
<1>3. TypeOK /\ deleted \in Nat
  BY DEF IInv, TypeOK
<1>4. ASSUME NEW a \in Agents PROVE Heads[a] \subseteq Ahead(a, 1)
  <2>1. ASSUME NEW r \in Newest(Of(Listed, a)) PROVE r.id \in Ahead(a, 1)
    <3>1. PICK n \in DOMAIN repo : repo[n] = r /\ r.agent = a
      BY DEF Newest, Of, Listed
    <3>2. n \in Nat /\ n > 0
      BY <1>3 DEF TypeOK
    <3>3. (1 - 1) * PageSize < n
      BY <3>2, ReleasesAssumption
    <3> QED  BY <3>1, <3>3 DEF Ahead
  <2> QED  BY <2>1 DEF Heads
<1>5. o.all \in BOOLEAN /\ step \in {"list", "pick"} /\ (o.all => step = "list")
  BY ReleasesAssumption
<1> HIDE DEF j, step
<1>6. Current(j)
  BY <1>2, <1>4, <1>5 DEF Current
<1>7. ASSUME o.all, NEW a \in Agents, Heads[a] # {} PROVE Counted(j, a)
  BY <1>2, <1>4, <1>5, <1>7 DEF Counted
<1>8. Abreast(j)
  BY <1>2, <1>3, <1>5, <1>6, <1>7 DEF Abreast
<1> QED  BY <1>1, <1>3, <1>8, JobAbreast

\* A release that is made is put in front: what was ahead of a page still is.
LEMMA CreateAbreast ==
  ASSUME IInv, InstallsAbreast, NEW p \in Publishers, CreateRelease(p)
  PROVE  InstallsAbreast'
<1> DEFINE r == [id |-> created + 1, agent |-> pub[p].agent, version |-> pub[p].version,
                 binary |-> dir[pub[p].agent].bin, sums |-> dir[pub[p].agent].sums, by |-> p]
<1>1. repo' = <<r>> \o repo /\ created' = created + 1 /\ UNCHANGED <<inst, deleted>>
  BY DEF CreateRelease
<1>2. repo \in Seq(Release) /\ created \in Nat /\ deleted \in Nat
      /\ \A n \in DOMAIN repo : repo[n].id \in Nat
  <2>1. repo \in Seq(Release) /\ created \in Nat /\ deleted \in Nat
    BY DEF IInv, TypeOK
  <2>2. \A n \in DOMAIN repo : repo[n] \in Release
    BY <2>1
  <2>3. \A x \in Release : x.id \in Nat
    BY DEF Release
  <2> QED  BY <2>1, <2>2, <2>3
<1>3. r.id = created + 1
  OBVIOUS
<1> HIDE DEF r
<1>4. /\ DOMAIN repo = 1..Len(repo) /\ Len(repo) \in Nat
      /\ DOMAIN repo' = 1..Len(repo) + 1 /\ repo'[1] = r
      /\ \A n \in DOMAIN repo : repo'[n + 1] = repo[n]
  <2> DEFINE R == Release \cup {r}
  <2>1. <<r>> \in Seq(R) /\ repo \in Seq(R)
    <3>1. repo \in Seq(Release) /\ Release \subseteq R
      BY <1>2
    <3>2. r \in R
      OBVIOUS
    <3>3. \A n \in 1..Len(repo) : repo[n] \in R
      BY <3>1
    <3> HIDE DEF R
    <3> QED  BY <3>1, <3>2, <3>3
  <2> HIDE DEF R
  <2>2. Len(repo) \in Nat /\ DOMAIN repo = 1..Len(repo)
    BY <2>1
  <2>3. Len(repo') = Len(repo) + 1 /\ DOMAIN repo' = 1..Len(repo')
    BY <1>1, <2>1
  <2>4. repo'[1] = r
    BY <1>1, <2>1
  <2>5. ASSUME NEW n \in DOMAIN repo PROVE repo'[n + 1] = repo[n]
    BY <1>1, <2>1
  <2> QED  BY <2>2, <2>3, <2>4, <2>5
<1>5. \A n \in DOMAIN repo' : n = 1 \/ (n - 1 \in DOMAIN repo /\ repo'[n] = repo[n - 1])
  <2> SUFFICES ASSUME NEW n \in DOMAIN repo', n # 1
               PROVE  n - 1 \in DOMAIN repo /\ repo'[n] = repo[n - 1]
    OBVIOUS
  <2>1. n - 1 \in DOMAIN repo /\ (n - 1) + 1 = n
    BY <1>4
  <2> QED  BY <1>4, <2>1
<1>6. Ordered'
  <2>1. ASSUME NEW n \in DOMAIN repo' PROVE repo'[n].id <= created'
    <3>1. CASE n = 1  BY <3>1, <1>1, <1>2, <1>3, <1>4
    <3>2. CASE n # 1
      <4>1. n - 1 \in DOMAIN repo /\ repo'[n] = repo[n - 1]  BY <3>2, <1>5
      <4>2. repo[n - 1].id \in Nat /\ repo[n - 1].id <= created
        BY <4>1, <1>2 DEF InstallsAbreast, Ordered
      <4> QED  BY <4>1, <4>2, <1>1, <1>2
    <3> QED  BY <3>1, <3>2
  <2>2. ASSUME NEW m \in DOMAIN repo', NEW n \in DOMAIN repo', m < n
        PROVE  repo'[n].id < repo'[m].id
    <3>1. n # 1 /\ m \in Nat /\ n \in Nat
      BY <2>2, <1>4
    <3>2. n - 1 \in DOMAIN repo /\ repo'[n] = repo[n - 1]
      BY <3>1, <1>5
    <3>3. CASE m = 1
      <4>1. repo[n - 1].id \in Nat /\ repo[n - 1].id <= created
        BY <3>2, <1>2 DEF InstallsAbreast, Ordered
      <4> QED  BY <3>2, <3>3, <4>1, <1>2, <1>3, <1>4
    <3>4. CASE m # 1
      <4>1. m - 1 \in DOMAIN repo /\ repo'[m] = repo[m - 1]
        BY <3>4, <1>5
      <4>2. m - 1 < n - 1
        BY <2>2, <3>1
      <4> QED  BY <3>2, <4>1, <4>2 DEF InstallsAbreast, Ordered
    <3> QED  BY <3>3, <3>4
  <2> QED  BY <2>1, <2>2 DEF Ordered
<1>7. ASSUME NEW a, NEW k \in Nat \ {0} PROVE Ahead(a, k) \subseteq Ahead(a, k)'
  <2>1. ASSUME NEW n \in DOMAIN repo, (k - 1) * PageSize < n, repo[n].agent = a
        PROVE  repo[n].id \in Ahead(a, k)'
    <3>1. n + 1 \in DOMAIN repo' /\ repo'[n + 1] = repo[n] /\ n \in Nat
      BY <1>4
    <3>2. (k - 1) * PageSize \in Nat
      <4>1. k - 1 \in Nat  OBVIOUS
      <4> QED  BY <4>1, ReleasesAssumption
    <3>3. (k - 1) * PageSize < n + 1
      BY <2>1, <3>1, <3>2
    <3> QED  BY <2>1, <3>1, <3>3 DEF Ahead
  <2> QED  BY <2>1 DEF Ahead
<1>8. ASSUME NEW i \in Installers PROVE Abreast(inst[i])'
  <2> DEFINE o == inst[i]
  <2>1. inst'[i] = o /\ deleted' = deleted /\ Abreast(o)
    BY <1>1 DEF InstallsAbreast
  <2>2. o # Idle => o.page \in Nat \ {0}
    <3>1. o # Idle => o.page \in Nat
      BY DEF IInv, TypeOK, Installs
    <3> QED  BY <2>1, <3>1 DEF Abreast
  <2>3. 1 \in Nat \ {0}
    OBVIOUS
  <2>4. ASSUME o # Idle, Current(o) PROVE Current(o)'
    BY <1>1, <1>7, <2>2, <2>3, <2>4 DEF Current
  <2>5. ASSUME o # Idle, NEW a \in Agents, Counted(o, a) PROVE Counted(o, a)'
    BY <1>1, <1>7, <2>2, <2>5 DEF Counted
  <2> QED  BY <1>1, <2>1, <2>4, <2>5 DEF Abreast
<1> QED  BY <1>6, <1>8 DEF InstallsAbreast

\* One that is deleted moves the others up: installs that had begun are not
\* promised anything any more.
LEMMA DeleteAbreast ==
  ASSUME IInv, InstallsAbreast, NEW k \in DOMAIN repo, DeleteRelease(k)
  PROVE  InstallsAbreast'
<1>1. /\ repo' = [n \in 1..Len(repo) - 1 |-> repo[IF n < k THEN n ELSE n + 1]]
      /\ deleted' = deleted + 1 /\ UNCHANGED <<created, inst>>
  BY DEF DeleteRelease
<1>2. repo \in Seq(Release) /\ Len(repo) \in Nat /\ DOMAIN repo = 1..Len(repo) /\ deleted \in Nat
  BY DEF IInv, TypeOK
<1> DEFINE old(n) == IF n < k THEN n ELSE n + 1
<1>3. /\ DOMAIN repo' = 1..Len(repo) - 1
      /\ \A n \in DOMAIN repo' : old(n) \in DOMAIN repo /\ repo'[n] = repo[old(n)]
      /\ \A m, n \in DOMAIN repo' : m < n => old(m) < old(n)
  BY <1>1, <1>2
<1> HIDE DEF old
<1>4. Ordered'
  <2>1. \A n \in DOMAIN repo' : repo'[n].id <= created'
    BY <1>1, <1>3 DEF InstallsAbreast, Ordered
  <2>2. \A m, n \in DOMAIN repo' : m < n => repo'[n].id < repo'[m].id
    BY <1>3 DEF InstallsAbreast, Ordered
  <2> QED  BY <2>1, <2>2 DEF Ordered
<1>5. ASSUME NEW i \in Installers PROVE Abreast(inst[i])'
  <2> DEFINE o == inst[i]
  <2>1. inst'[i] = o /\ Abreast(o)
    BY <1>1 DEF InstallsAbreast
  <2>2. o # Idle => o.gone \in Nat
    BY DEF IInv, TypeOK, Installs
  <2>3. o # Idle => o.gone <= deleted /\ o.page >= 1
    BY <2>1 DEF Abreast
  <2>4. o # Idle => o.gone <= deleted' /\ o.gone # deleted'
    BY <1>1, <1>2, <2>2, <2>3
  <2> QED  BY <1>1, <2>1, <2>3, <2>4 DEF Abreast
<1> QED  BY <1>4, <1>5 DEF InstallsAbreast

LEMMA AbreastSafe == IInv /\ InstallsAbreast /\ [Next]_vars => InstallsAbreast'
<1> SUFFICES ASSUME IInv, InstallsAbreast, [Next]_vars PROVE InstallsAbreast'
  OBVIOUS
<1>1. ASSUME UNCHANGED <<repo, created, deleted, inst>> PROVE InstallsAbreast'
  BY <1>1 DEF InstallsAbreast, Ordered, Abreast, Current, Counted, Ahead
<1>2. CASE UNCHANGED vars
  BY <1>1, <1>2 DEF vars
<1>3. CASE \E p \in Publishers, as \in (SUBSET Agents) \ {{}}, v \in Versions :
             StartPublish(p, as, v)
  BY <1>1, <1>3 DEF StartPublish
<1>4. CASE \E p \in Publishers, a \in Agents : Compile(p, a)
  BY <1>1, <1>4 DEF Compile
<1>5. CASE \E p \in Publishers : Sum(p) \/ CreateRelease(p) \/ PublishFails(p)
  BY <1>1, <1>5, CreateAbreast DEF Sum, PublishFails
<1>6. CASE \E k \in DOMAIN repo : DeleteRelease(k)
  BY <1>6, DeleteAbreast
<1>7. CASE \E i \in Installers, o \in Orders : StartInstall(i, o)
  BY <1>7, StartAbreast
<1>8. ASSUME NEW i \in Installers, InstallStep(i) PROVE InstallsAbreast'
  <2>1. inst[i] \in Installs /\ Installing(i)
    BY <1>8 DEF InstallStep, IInv, TypeOK
  <2>2. CASE \E a \in Agents \cup {Repo} : Pick(i, a)
    BY <2>1, <2>2, PickAbreast DEF Names
  <2> QED  BY <2>1, <2>2, ListAbreast, ResolveAbreast, StepsAbreast DEF Installing
<1> QED  BY <1>2, <1>3, <1>4, <1>5, <1>6, <1>7, <1>8 DEF Next

LEMMA InitAbreast == Init => InstallsAbreast
<1> SUFFICES ASSUME Init PROVE InstallsAbreast
  OBVIOUS
<1>1. Ordered
  <2>1. CASE repo = <<>>  BY <2>1 DEF Init, Ordered
  <2>2. ASSUME NEW h \in Handmade, repo = <<h>> PROVE Ordered
    <3>1. h.id = 1
      BY ReleasesAssumption
    <3>2. Len(repo) = 1 /\ DOMAIN repo = {1} /\ repo[1] = h
      BY <2>2
    <3>3. created = 1
      BY <3>2 DEF Init
    <3> QED  BY <3>1, <3>2, <3>3 DEF Ordered
  <2> QED  BY <2>1, <2>2 DEF Init
<1>2. \A i \in Installers : Abreast(inst[i])
  BY DEF Init, Abreast
<1> QED  BY <1>1, <1>2 DEF InstallsAbreast

\* A remote install (install.go, releases.go) of the latest releases that ends well
\* has for each of its agents a release no older than the one that was the newest
\* when it began, and --all has left out no agent that had one, however the releases
\* made meanwhile have shifted the pages.
THEOREM LatestInstalled == Spec => []InstallsTheLatest
<1>1. InstallsAbreast => InstallsTheLatest
  <2> SUFFICES ASSUME InstallsAbreast, NEW i \in Installers, inst[i].step = "ok",
                      inst[i].version = Latest, inst[i].gone = deleted
               PROVE  /\ \A r \in inst[i].installed :
                           r.agent \in Agents => \A id \in inst[i].heads[r.agent] : r.id >= id
                      /\ inst[i].all => \A a \in Agents :
                           inst[i].heads[a] # {} => \E r \in inst[i].installed : r.agent = a
    BY DEF InstallsTheLatest
  <2>1. Abreast(inst[i]) /\ inst[i] # Idle
    BY DEF InstallsAbreast, Idle
  <2>2. Current(inst[i])
    BY <2>1 DEF Abreast
  <2>3. inst[i].failed = {} /\ inst[i].todo = {}
    BY <2>1 DEF Abreast
  <2>4. ASSUME inst[i].all, NEW a \in Agents, inst[i].heads[a] # {}
        PROVE  \E r \in inst[i].installed : r.agent = a
    <3>1. Counted(inst[i], a)
      BY <2>1, <2>4 DEF Abreast
    <3> QED  BY <2>3, <3>1 DEF Counted
  <2> QED  BY <2>2, <2>4 DEF Current
<1> QED  BY <1>1, InitAbreast, AbreastSafe, Invariance, PTL DEF Spec

(* ---- BuildAll ---- *)

\* The agents whose build has sent its result, and those whose goroutine runs, are
\* finite sets of agents.
LEMMA FiniteParts ==
  /\ IsFiniteSet(Defs) /\ Cardinality(Defs) \in Nat /\ Capacity \in Nat
  /\ IsFiniteSet(Active) /\ Cardinality(Active) \in Nat
  /\ IsFiniteSet(Sent) /\ Cardinality(Sent) \in Nat /\ Cardinality(Sent) <= Cardinality(Defs)
  /\ Cardinality(Sent) = Cardinality(Defs) => Sent = Defs
<1>1. IsFiniteSet(Defs) /\ Cardinality(Defs) \in Nat
  BY BuildAssumption, FS_CardinalityType
<1>2. Active \in SUBSET Defs /\ Sent \in SUBSET Defs
  BY DEF Active, Sent
<1>3. IsFiniteSet(Active) /\ Cardinality(Active) \in Nat
  BY <1>1, <1>2, FS_Subset, FS_CardinalityType
<1>4. IsFiniteSet(Sent) /\ Cardinality(Sent) \in Nat /\ Cardinality(Sent) <= Cardinality(Defs)
  BY <1>1, <1>2, FS_Subset, FS_CardinalityType
<1>5. Cardinality(Sent) = Cardinality(Defs) => Sent = Defs
  BY <1>1, <1>2, FS_Subset
<1> QED  BY <1>1, <1>3, <1>4, <1>5 DEF Capacity

LEMMA BuildInitSafe == BuildInit => BuildInv
<1> SUFFICES ASSUME BuildInit PROVE BuildInv
  OBVIOUS
<1>1. BuildTypeOK
  BY BuildAssumption DEF BuildInit, BuildTypeOK
<1>2. CASE Parallel
  <2>1. Active = {} /\ Sent = {}
    BY DEF BuildInit, Active, Sent
  <2>2. Cardinality({}) = 0
    BY FS_EmptySet
  <2>3. Cardinality(Defs) > 1 /\ Defs # {} /\ Cardinality(Defs) \in Nat
    BY <1>2, <2>2, FiniteParts DEF Parallel
  <2>4. Len(results) = 0 /\ received = 0 /\ DOMAIN results = {}
    BY DEF BuildInit
  <2>5. Len(results) + received = Cardinality(Sent) /\ received < Cardinality(Defs)
    BY <2>1, <2>2, <2>3, <2>4
  <2>6. InGoroutines
    BY <2>1, <2>2, <2>3, <2>4, <2>5 DEF InGoroutines, BuildInit
  <2> QED  BY <1>1, <1>2, <2>6 DEF BuildInv
<1>3. CASE ~Parallel
  BY <1>1, <1>3 DEF BuildInv, BuildInit, InTurn
<1> QED  BY <1>2, <1>3

LEMMA BuildNextSafe ==
  ASSUME BuildInv, NEW d \in Defs, NEW ok \in BOOLEAN, BuildNext(d, ok)
  PROVE  BuildInv'
<1>1. BuildTypeOK /\ InTurn /\ ~Parallel /\ ~Parallel'
  BY DEF BuildInv, BuildNext, Parallel
<1>2. BuildTypeOK'
  BY <1>1 DEF BuildTypeOK, BuildNext, Built
<1>3. InTurn'
  <2>1. /\ verdict = "none" /\ d \in unstarted /\ made = Defs \ unstarted /\ failures = {}
        /\ made' = (IF ok THEN made \cup {d} ELSE made) /\ unstarted' = unstarted \ {d}
        /\ failures' = (IF ok THEN failures ELSE {d}) /\ worker' = worker
    BY <1>1 DEF InTurn, BuildNext, Built
  <2>2. CASE ~ok
    <3>1. verdict' = "error"  BY <2>2 DEF BuildNext
    <3> QED  BY <2>1, <2>2, <3>1, <1>1 DEF InTurn
  <2>3. CASE ok /\ unstarted = {d}
    <3>1. verdict' = "ok"  BY <2>3 DEF BuildNext
    <3>2. made' = Defs  BY <1>1, <2>1, <2>3 DEF BuildTypeOK
    <3> QED  BY <2>1, <2>3, <3>1, <3>2, <1>1 DEF InTurn
  <2>4. CASE ok /\ unstarted # {d}
    <3>1. verdict' = "none"  BY <2>4 DEF BuildNext
    <3>2. made' = Defs \ unstarted' /\ unstarted' # {}  BY <1>1, <2>1, <2>4 DEF BuildTypeOK
    <3> QED  BY <2>1, <2>4, <3>1, <3>2, <1>1 DEF InTurn
  <2> QED  BY <2>2, <2>3, <2>4
<1> QED  BY <1>1, <1>2, <1>3 DEF BuildInv

LEMMA StartWorkerSafe ==
  ASSUME BuildInv, NEW d \in Defs, StartWorker(d)
  PROVE  BuildInv'
<1>1. /\ BuildTypeOK /\ InGoroutines /\ Parallel /\ Parallel'
      /\ d \in unstarted /\ worker' = [worker EXCEPT ![d] = "building"]
      /\ unstarted' = unstarted \ {d} /\ sem' = sem + 1
      /\ UNCHANGED <<limit, results, received, failures, made, verdict>>
  BY DEF BuildInv, StartWorker, Parallel
<1>2. BuildTypeOK'
  BY <1>1 DEF BuildTypeOK
<1>3. worker[d] = "none"
  BY <1>1 DEF InGoroutines
<1>4. Sent' = Sent /\ Active' = Active \cup {d} /\ d \notin Active
  BY <1>1, <1>3 DEF Sent, Active, BuildTypeOK
<1>5. sem' = Cardinality(Active)'
  BY <1>1, <1>4, FiniteParts, FS_AddElement DEF InGoroutines
<1>6. \A e \in Defs : worker'[e] = "none" <=> e \in unstarted'
  BY <1>1 DEF InGoroutines, BuildTypeOK
<1>7. InGoroutines'
  BY <1>1, <1>4, <1>5, <1>6 DEF InGoroutines
<1> QED  BY <1>1, <1>2, <1>7 DEF BuildInv

LEMMA FinishBuildSafe ==
  ASSUME BuildInv, NEW d \in Defs, NEW ok \in BOOLEAN, FinishBuild(d, ok)
  PROVE  BuildInv'
<1>1. /\ BuildTypeOK /\ InGoroutines /\ Parallel /\ Parallel'
      /\ worker[d] = "building" /\ worker' = [worker EXCEPT ![d] = "sending"]
      /\ made' = (IF ok THEN made \cup {d} ELSE made)
      /\ UNCHANGED <<limit, unstarted, sem, results, received, failures, verdict>>
  BY DEF BuildInv, FinishBuild, Built, Parallel, InTurn
<1>2. BuildTypeOK'
  BY <1>1 DEF BuildTypeOK
<1>3. Sent' = Sent /\ Active' = Active /\ d \notin Sent
  BY <1>1 DEF Sent, Active, BuildTypeOK
<1>4. \A e \in Sent : e \in made' <=> e \in made
  BY <1>1, <1>3
<1>5. \A e \in Defs : worker'[e] = "none" <=> e \in unstarted'
  BY <1>1 DEF InGoroutines, BuildTypeOK
<1>6. InGoroutines'
  BY <1>1, <1>3, <1>4, <1>5 DEF InGoroutines
<1> QED  BY <1>1, <1>2, <1>6 DEF BuildInv

LEMMA SendSafe ==
  ASSUME BuildInv, NEW d \in Defs, Send(d)
  PROVE  BuildInv'
<1> DEFINE b == d \in made
           r == <<d, b>>
<1>1. /\ BuildTypeOK /\ InGoroutines /\ Parallel /\ Parallel'
      /\ worker[d] = "sending" /\ worker' = [worker EXCEPT ![d] = "leaving"]
      /\ results' = Append(results, r)
      /\ UNCHANGED <<limit, unstarted, sem, received, failures, made, verdict>>
  BY DEF BuildInv, Send, Parallel, InTurn
<1>2. r \in Defs \X BOOLEAN /\ r[1] = d /\ (r[2] <=> d \in made)
  <2>1. b \in BOOLEAN /\ (b <=> d \in made)
    OBVIOUS
  <2> HIDE DEF b
  <2>2. r \in Defs \X BOOLEAN /\ r[1] = d /\ r[2] = b
    BY <2>1
  <2> HIDE DEF r
  <2> QED  BY <2>1, <2>2
<1> HIDE DEF r
<1>3. /\ results' \in Seq(Defs \X BOOLEAN) /\ Len(results') = Len(results) + 1
      /\ DOMAIN results' = DOMAIN results \cup {Len(results) + 1} /\ Len(results) \in Nat
      /\ results'[Len(results) + 1] = r
      /\ \A k \in DOMAIN results : results'[k] = results[k]
  BY <1>1, <1>2 DEF BuildTypeOK
<1>4. BuildTypeOK'
  BY <1>1, <1>3 DEF BuildTypeOK
<1>5. Sent' = Sent \cup {d} /\ Active' = Active /\ d \notin Sent
  BY <1>1 DEF Sent, Active, BuildTypeOK
<1>6. Cardinality(Sent') = Cardinality(Sent) + 1
  BY <1>5, FiniteParts, FS_AddElement
<1>7. Len(results') + received' = Cardinality(Sent')
  BY <1>1, <1>3, <1>6, FiniteParts DEF InGoroutines, BuildTypeOK
<1>8. \A k \in DOMAIN results' :
        results'[k][1] \in Sent' /\ (results'[k][2] <=> results'[k][1] \in made')
  BY <1>1, <1>2, <1>3, <1>5 DEF InGoroutines
<1>9. \A e \in Sent' \ made' : e \in failures' \/ \E k \in DOMAIN results' : results'[k][1] = e
  <2> SUFFICES ASSUME NEW e \in Sent' \ made', e \notin failures'
               PROVE  \E k \in DOMAIN results' : results'[k][1] = e
    OBVIOUS
  <2>1. CASE e = d  BY <2>1, <1>2, <1>3
  <2>2. CASE e # d
    <3>1. \E k \in DOMAIN results : results[k][1] = e
      BY <2>2, <1>1, <1>5 DEF InGoroutines
    <3> QED  BY <3>1, <1>3
  <2> QED  BY <2>1, <2>2
<1>10. \A e \in Defs : worker'[e] = "none" <=> e \in unstarted'
  BY <1>1 DEF InGoroutines, BuildTypeOK
<1>11. InGoroutines'
  BY <1>1, <1>5, <1>7, <1>8, <1>9, <1>10 DEF InGoroutines
<1> QED  BY <1>1, <1>4, <1>11 DEF BuildInv

LEMMA LeaveSafe ==
  ASSUME BuildInv, NEW d \in Defs, Leave(d)
  PROVE  BuildInv'
<1>1. /\ BuildTypeOK /\ InGoroutines /\ Parallel /\ Parallel'
      /\ worker[d] = "leaving" /\ worker' = [worker EXCEPT ![d] = "gone"]
      /\ sem' = sem - 1
      /\ UNCHANGED <<limit, unstarted, results, received, failures, made, verdict>>
  BY DEF BuildInv, Leave, Parallel, InTurn
<1>2. Sent' = Sent /\ Active' = Active \ {d} /\ d \in Active
  BY <1>1 DEF Sent, Active, BuildTypeOK
<1>3. sem' = Cardinality(Active') /\ sem' \in Nat
  <2>1. Cardinality(Active') = Cardinality(Active) - 1
    BY <1>2, FiniteParts, FS_RemoveElement
  <2>2. Cardinality(Active') \in Nat
    BY <1>2, FiniteParts, FS_RemoveElement, FS_CardinalityType
  <2> QED  BY <1>1, <2>1, <2>2 DEF InGoroutines
<1>4. BuildTypeOK'
  BY <1>1, <1>3 DEF BuildTypeOK
<1>5. \A e \in Defs : worker'[e] = "none" <=> e \in unstarted'
  BY <1>1 DEF InGoroutines, BuildTypeOK
<1>6. InGoroutines'
  BY <1>1, <1>2, <1>3, <1>5 DEF InGoroutines
<1> QED  BY <1>1, <1>4, <1>6 DEF BuildInv

LEMMA ReceiveSafe ==
  ASSUME BuildInv, Receive
  PROVE  BuildInv'
<1> DEFINE h == Head(results)
<1>1. /\ BuildTypeOK /\ InGoroutines /\ Parallel /\ Parallel'
      /\ verdict = "none" /\ results # <<>> /\ received' = received + 1
      /\ failures' = (IF h[2] THEN failures ELSE failures \cup {h[1]})
      /\ results' = Tail(results)
      /\ UNCHANGED <<limit, unstarted, sem, worker, made>>
  BY DEF BuildInv, Receive, Parallel
<1>2. /\ results \in Seq(Defs \X BOOLEAN) /\ Len(results) \in Nat /\ Len(results) >= 1
      /\ DOMAIN results = 1..Len(results) /\ h = results[1]
  BY <1>1 DEF BuildTypeOK
<1>3. h[1] \in Sent /\ (h[2] <=> h[1] \in made) /\ h \in Defs \X BOOLEAN
  BY <1>1, <1>2 DEF InGoroutines
<1> HIDE DEF h
<1>4. /\ results' \in Seq(Defs \X BOOLEAN) /\ Len(results') = Len(results) - 1
      /\ DOMAIN results' = 1..Len(results) - 1
      /\ \A k \in DOMAIN results' : k + 1 \in DOMAIN results /\ results'[k] = results[k + 1]
  BY <1>1, <1>2
<1>5. Sent' = Sent /\ Active' = Active
  BY <1>1 DEF Sent, Active
<1>6. h[1] \in Defs
  BY <1>3 DEF Sent
<1>7. BuildTypeOK'
  <2>1. received' \in Nat /\ failures' \subseteq Defs
    BY <1>1, <1>6 DEF BuildTypeOK
  <2>2. verdict' \in {"none", "ok", "error"}
    BY DEF Receive
  <2> QED  BY <1>1, <1>4, <2>1, <2>2 DEF BuildTypeOK
<1>8. Len(results') + received' = Cardinality(Sent')
  <2>1. Len(results) + received = Cardinality(Sent) /\ received \in Nat
    BY <1>1 DEF InGoroutines, BuildTypeOK
  <2> QED  BY <1>1, <1>2, <1>4, <1>5, <2>1
<1>9. \A k \in DOMAIN results' :
        results'[k][1] \in Sent' /\ (results'[k][2] <=> results'[k][1] \in made')
  BY <1>1, <1>4, <1>5 DEF InGoroutines
<1>10. failures' \subseteq Sent' \ made'
  BY <1>1, <1>3, <1>5 DEF InGoroutines
<1>11. \A e \in Sent' \ made' : e \in failures' \/ \E k \in DOMAIN results' : results'[k][1] = e
  <2> SUFFICES ASSUME NEW e \in Sent' \ made', e \notin failures'
               PROVE  \E k \in DOMAIN results' : results'[k][1] = e
    OBVIOUS
  <2>1. e \in Sent \ made /\ e \notin failures
    BY <1>1, <1>5
  <2>2. PICK k \in DOMAIN results : results[k][1] = e
    BY <1>1, <2>1 DEF InGoroutines
  <2>3. k # 1
    BY <1>1, <1>2, <1>3, <2>1, <2>2
  <2>4. k - 1 \in DOMAIN results' /\ (k - 1) + 1 = k
    BY <1>2, <1>4, <2>3
  <2> QED  BY <1>4, <2>2, <2>4
<1>12. received < Cardinality(Defs) /\ received' <= Cardinality(Defs)
  <2>1. received < Cardinality(Defs)
    BY <1>1 DEF InGoroutines
  <2> QED  BY <1>1, <2>1, FiniteParts DEF BuildTypeOK
<1>13. /\ verdict' = "none" <=> received' < Cardinality(Defs)
       /\ verdict' = "ok" => failures' = {}
       /\ verdict' = "error" => failures' # {}
  <2>1. verdict' = CASE received' < Cardinality(Defs) -> "none"
                     [] received' = Cardinality(Defs) /\ failures' = {} -> "ok"
                     [] OTHER -> "error"
    BY DEF Receive
  <2>2. received' \in Nat /\ Cardinality(Defs) \in Nat
    BY <1>7, FiniteParts DEF BuildTypeOK
  <2>3. CASE received' < Cardinality(Defs)
    <3>1. verdict' = "none"
      BY <2>1, <2>2, <2>3
    <3> QED  BY <2>3, <3>1
  <2>4. CASE received' = Cardinality(Defs) /\ failures' = {}
    <3>1. verdict' = "ok"
      BY <2>1, <2>2, <2>4
    <3> QED  BY <2>2, <2>4, <3>1
  <2>5. CASE received' = Cardinality(Defs) /\ failures' # {}
    <3>1. verdict' = "error"
      BY <2>1, <2>2, <2>5
    <3> QED  BY <2>2, <2>5, <3>1
  <2> QED  BY <1>12, <2>2, <2>3, <2>4, <2>5
<1>14. InGoroutines'
  BY <1>1, <1>5, <1>8, <1>9, <1>10, <1>11, <1>13 DEF InGoroutines
<1> QED  BY <1>1, <1>7, <1>14 DEF BuildInv

\* The caller or a goroutine can go on, and what is returned is true.
LEMMA BuildInvSound == BuildInv => BuildAllSound
<1> SUFFICES ASSUME BuildInv PROVE BuildAllSound
  OBVIOUS
<1>1. CASE ~Parallel
  BY <1>1 DEF BuildInv, InTurn, BuildAllSound, BuildNeverStuck, CallerCanGoOn, VerdictIsTrue
<1>2. CASE Parallel
  <2>1. BuildTypeOK /\ InGoroutines
    BY <1>2 DEF BuildInv
  <2>2. limit > 1 /\ limit \in Nat /\ results \in Seq(Defs \X BOOLEAN) /\ received \in Nat
        /\ Len(results) \in Nat
    BY <1>2, <2>1 DEF Parallel, BuildTypeOK
  <2>3. ASSUME NEW d \in Active PROVE d \in Defs /\ WorkerCanGoOn(d)
    <3>1. d \in Defs /\ worker[d] \in {"building", "sending", "leaving"}
      BY DEF Active
    <3>2. CASE worker[d] = "sending"
      <4>1. d \notin Sent
        BY <3>2 DEF Sent
      <4>2. Cardinality(Sent) < Cardinality(Defs)
        BY <3>1, <4>1, FiniteParts
      <4>3. Len(results) < Capacity
        BY <2>1, <2>2, <4>2, FiniteParts DEF InGoroutines, Capacity
      <4> QED  BY <3>1, <3>2, <4>3 DEF WorkerCanGoOn
    <3> QED  BY <3>1, <3>2 DEF WorkerCanGoOn
  <2>4. BuildNeverStuck
    <3> SUFFICES ASSUME verdict = "none", Active = {} PROVE CallerCanGoOn
      BY <2>3 DEF BuildNeverStuck
    <3>1. sem = 0
      BY <2>1, FS_EmptySet DEF InGoroutines
    <3>2. CASE unstarted = {}
      <4>1. Sent = Defs
        BY <2>1, <3>2 DEF Active, Sent, InGoroutines, BuildTypeOK
      <4>2. Len(results) # 0
        BY <2>1, <2>2, <4>1, FiniteParts DEF InGoroutines
      <4> QED  BY <2>2, <3>2, <4>2 DEF CallerCanGoOn
    <3>3. CASE unstarted # {}
      BY <2>2, <3>1, <3>3 DEF CallerCanGoOn
    <3> QED  BY <3>2, <3>3
  <2>5. VerdictIsTrue
    <3> SUFFICES ASSUME verdict # "none"
                 PROVE  failures = Defs \ made /\ (verdict = "ok" => failures = {})
                        /\ (verdict = "error" => failures # {})
      BY <2>1 DEF VerdictIsTrue, BuildTypeOK
    <3>1. ~(received < Cardinality(Defs))
      BY <2>1 DEF InGoroutines
    <3>2. Len(results) = 0 /\ Cardinality(Sent) = Cardinality(Defs)
      <4>1. Len(results) + received = Cardinality(Sent)
        BY <2>1 DEF InGoroutines
      <4> QED  BY <2>2, <3>1, <4>1, FiniteParts
    <3>3. Sent = Defs /\ DOMAIN results = {}
      BY <2>2, <3>2, FiniteParts
    <3> QED  BY <2>1, <3>3 DEF InGoroutines
  <2> QED  BY <2>4, <2>5 DEF BuildAllSound
<1> QED  BY <1>1, <1>2

\* BuildAll (builder.go) never waits for ever, whatever the numbers of agents and of
\* places, and the error it returns names exactly the agents that were not built.
THEOREM BuildAllIsSound == BuildSpec => []BuildAllSound
<1>1. BuildInv /\ [BuildAll]_buildVars => BuildInv'
  <2> SUFFICES ASSUME BuildInv, [BuildAll]_buildVars PROVE BuildInv'
    OBVIOUS
  <2>1. CASE UNCHANGED buildVars
    BY <2>1 DEF buildVars, BuildInv, BuildTypeOK, InTurn, InGoroutines, Parallel, Active, Sent
  <2> QED  BY <2>1, BuildNextSafe, StartWorkerSafe, FinishBuildSafe, SendSafe, LeaveSafe,
              ReceiveSafe DEF BuildAll, Worker
<1> QED  BY <1>1, BuildInitSafe, BuildInvSound, PTL DEF BuildSpec
=============================================================================
