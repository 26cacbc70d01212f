------------------------------ MODULE Releases ------------------------------
(***************************************************************************)
(* Agents on their way from `abby publish' through the GitHub releases of  *)
(* one repository to `abby install' of a remote reference (cmd/abby/       *)
(* publish.go, install.go, checksum.go, pkg/github).  Publishers on one    *)
(* machine share the directory build/publish.  Installers page through the *)
(* list of releases, which changes between two pages, resolve a release,   *)
(* download its binary, compare it with the release's checksums, run it    *)
(* with --describe and put it in place (Lifecycle has the rest of that     *)
(* last step).  Every request may fail; some failures are retried.  With   *)
(* a GitHub token assets are fetched by their number; without one by the   *)
(* name they have under the tag, whatever release has the tag by then.     *)
(*                                                                         *)
(* One platform is modelled.  The content of a binary is what it was built *)
(* from and the number of the build; a checksum is the content itself.     *)
(***************************************************************************)
EXTENDS Naturals, Sequences, FiniteSets

CONSTANTS
  Publishers, Installers,
  Agents,            \* names in the Abbyfile
  Repo,              \* the repository's name, the default name of its agent
  Versions,
  Orders,            \* what an installer may be told: [all, agents, version, skip], and
                     \* whether it has a token
  Handmade,          \* releases that abby did not publish
  PageSize, MaxRetries,
  MaxBuilds,         \* bound on compilations
  MaxFaults,         \* bound on failures, damaged downloads and deletions
  Plain,             \* the agent of a tag v<version>
  Latest,            \* no version asked for
  None,
  Damaged,           \* a binary damaged on its way, or written by two installers at once
  Torn               \* a binary truncated and not yet written

Names == Agents \cup {Repo}
Content == [agent : Agents, version : Versions, build : Nat]
Release ==
  [id : Nat, agent : Names \cup {Plain}, version : Versions, binary : Content \cup {None},
   sums : Content \cup {None}, by : Publishers \cup {None}]

ASSUME ReleasesAssumption ==
  /\ Orders \subseteq [all : BOOLEAN, agents : SUBSET Agents,
                       version : Versions \cup {Latest}, skip : BOOLEAN, token : BOOLEAN]
  /\ Handmade \subseteq {r \in Release : r.by = None /\ r.id = 1}
  /\ Plain \notin Names
  /\ None \notin Publishers /\ None \notin Content /\ None \notin Release
  /\ {Damaged, Torn} \cap (Content \cup {None}) = {} /\ Damaged # Torn
  /\ PageSize \in Nat \ {0} /\ MaxRetries \in Nat
  /\ MaxBuilds \in Nat /\ MaxFaults \in Nat

VARIABLES
  repo,        \* the releases, as the API lists them: newest first
  created,     \* number of releases created so far
  dir,         \* build/publish: per agent, the binary and the checksum file
  builds,
  pub,         \* the publish commands
  inst,        \* the install commands
  bin,         \* the installed binaries
  faults, deleted,
  overlap,     \* history: publishers that ran at the same time as another
  issued,        \* history: the releases there have been
  ran          \* history: what was run, for which release, and how it was fetched

vars == <<repo, created, dir, builds, pub, inst, bin, faults, deleted, overlap, issued, ran>>
shop == <<repo, created, dir, builds, pub, overlap, issued>>

Idle == [step |-> "idle"]

Init ==
  /\ repo \in {<<>>} \cup {<<r>> : r \in Handmade}
  /\ created = Len(repo)
  /\ dir = [a \in Agents |-> [bin |-> None, sums |-> None]]
  /\ builds = 0
  /\ pub = [p \in Publishers |-> Idle]
  /\ inst = [i \in Installers |-> Idle]
  /\ bin = [a \in Agents \cup {Repo} |-> None]
  /\ faults = 0 /\ deleted = 0
  /\ overlap = {} /\ ran = {}
  /\ issued = {repo[k] : k \in DOMAIN repo}

(* ---- publish ---- *)

Publishing(p) == pub[p].step \notin {"idle", "done", "failed"}

\* Of all the agents of the Abbyfile, or --agent.
StartPublish(p, agents, v) ==
  LET others == {q \in Publishers : Publishing(q)}
  IN /\ pub[p] = Idle
     /\ pub' = [pub EXCEPT ![p] = [step |-> "compile", todo |-> agents, version |-> v]]
     /\ overlap' = IF others = {} THEN overlap ELSE overlap \cup others \cup {p}
     /\ UNCHANGED <<repo, created, dir, builds, inst, bin, faults, deleted, issued, ran>>

Tag(r) == <<r.agent, r.version>>

\* A tag that has a release already fails the whole command.
Taken(p) ==
  pub[p].step = "release" /\ \E k \in DOMAIN repo : Tag(repo[k]) = <<pub[p].agent, pub[p].version>>

PublishFails(p) ==
  /\ Publishing(p)
  /\ ~Taken(p) => faults < MaxFaults
  /\ faults' = IF Taken(p) THEN faults ELSE faults + 1
  /\ pub' = [pub EXCEPT ![p] = [step |-> "failed"]]
  /\ UNCHANGED <<repo, created, dir, builds, inst, bin, deleted, overlap, issued, ran>>

\* Mutant: what an earlier publish left in build/publish is not built again.
OutputKept(a, v) ==
  IF dir[a].bin # None THEN dir[a].bin ELSE [agent |-> a, version |-> v, build |-> builds + 1]

Output(a, v) == [agent |-> a, version |-> v, build |-> builds + 1]

\* The next agent: the order of a Go map.
Compile(p, a) ==
  /\ pub[p].step = "compile" /\ a \in pub[p].todo
  /\ builds < MaxBuilds
  /\ builds' = builds + 1
  /\ dir' = [dir EXCEPT ![a].bin = Output(a, pub[p].version)]
  /\ pub' = [pub EXCEPT ![p] = [step |-> "sum", agent |-> a, todo |-> pub[p].todo \ {a},
                                version |-> pub[p].version]]
  /\ UNCHANGED <<repo, created, inst, bin, faults, deleted, overlap, issued, ran>>

Sum(p) ==
  /\ pub[p].step = "sum"
  /\ dir' = [dir EXCEPT ![pub[p].agent].sums = dir[pub[p].agent].bin]
  /\ pub' = [pub EXCEPT ![p].step = "release"]
  /\ UNCHANGED <<repo, created, builds, inst, bin, faults, deleted, overlap, issued, ran>>

\* `gh release create' makes the release with all its assets.
CreateRelease(p) ==
  LET a == pub[p].agent
      r == [id |-> created + 1, agent |-> a, version |-> pub[p].version,
            binary |-> dir[a].bin, sums |-> dir[a].sums, by |-> p]
  IN /\ pub[p].step = "release"
     /\ ~Taken(p)
     /\ repo' = <<r>> \o repo
     /\ issued' = issued \cup {r}
     /\ created' = created + 1
     /\ pub' = [pub EXCEPT ![p] = IF pub[p].todo = {} THEN [step |-> "done"]
                                  ELSE [step |-> "compile", todo |-> pub[p].todo,
                                        version |-> pub[p].version]]
     /\ UNCHANGED <<dir, builds, inst, bin, faults, deleted, overlap, ran>>

\* By hand, on the web.
DeleteRelease(k) ==
  /\ faults < MaxFaults /\ faults' = faults + 1
  /\ deleted' = deleted + 1
  /\ repo' = [j \in 1..Len(repo) - 1 |-> repo[IF j < k THEN j ELSE j + 1]]
  /\ UNCHANGED <<created, dir, builds, pub, inst, bin, overlap, issued, ran>>

(* ---- the list of releases ---- *)

\* Mutant: the last page is not fetched.
MoreButLast(k) == Len(repo) > (k + 1) * PageSize

\* Page k, and whether there is a next one.
Page(k) == {repo[j] : j \in {j \in DOMAIN repo : (k - 1) * PageSize < j /\ j <= k * PageSize}}
More(k) == Len(repo) > k * PageSize

Newest(rs) == {r \in rs : \A s \in rs : s.id <= r.id}
Of(rs, a) == {r \in rs : r.agent = a}
Listed == {repo[j] : j \in DOMAIN repo}

\* The newest release of every agent that has one.
Heads == [a \in Agents |-> {r.id : r \in Newest(Of(Listed, a))}]

(* ---- install ---- *)

\* A request of installer i is in flight; the step says for what.
Asking(i) == inst[i].step \in {"list", "resolve", "download", "sums"}

Start(i, step) == [inst[i] EXCEPT !.step = step, !.page = 1, !.tries = 0]
To(i, job) == inst' = [inst EXCEPT ![i] = job]

Ended(i) == inst[i].step \in {"ok", "error"}

\* This agent is done with; the rest of a bulk install goes on.
NextAgent(i, ok) ==
  To(i, [Start(i, IF inst[i].todo # {} THEN "pick"
                  ELSE IF ok /\ inst[i].failed = {} THEN "ok" ELSE "error")
         EXCEPT !.failed = IF ok THEN @ ELSE @ \cup {inst[i].agent},
                !.installed = IF ok THEN @ \cup {inst[i].rel} ELSE @])

StartInstall(i, o) ==
  /\ inst[i] = Idle
  /\ To(i, [step |-> IF o.all THEN "list" ELSE "pick", all |-> o.all, todo |-> o.agents,
            version |-> o.version, skip |-> o.skip, token |-> o.token, agent |-> None, rel |-> None,
            tmp |-> None, page |-> 1, tries |-> 0, seen |-> {}, failed |-> {},
            installed |-> {}, heads |-> Heads, gone |-> deleted])
  /\ UNCHANGED <<shop, bin, faults, deleted, ran>>

\* ListAgents: a page; tags v<version> count only when there are no others.
ListPage(i) ==
  LET seen == inst[i].seen \cup {r.agent : r \in Page(inst[i].page)}
      named == IF seen = {Plain} THEN {Repo} ELSE seen \ {Plain}
  IN /\ inst[i].step = "list"
     /\ To(i, IF More(inst[i].page)
              THEN [inst[i] EXCEPT !.seen = seen, !.page = @ + 1, !.tries = 0]
              ELSE [Start(i, IF named = {} THEN "error" ELSE "pick")
                    EXCEPT !.todo = named, !.seen = seen])
     /\ UNCHANGED <<shop, bin, faults, deleted, ran>>

Pick(i, a) ==
  /\ inst[i].step = "pick" /\ a \in inst[i].todo
  /\ To(i, [Start(i, "resolve") EXCEPT !.agent = a, !.todo = @ \ {a}, !.rel = None,
                                       !.tmp = None])
  /\ UNCHANGED <<shop, bin, faults, deleted, ran>>

\* FindAsset looks for this platform's binary.
Found(i, r) ==
  IF r.binary = None THEN NextAgent(i, FALSE)
  ELSE To(i, [Start(i, "download") EXCEPT !.rel = r])

\* LatestRelease: the first of the agent in the list; GetRelease: the one with the
\* tag.
Resolve(i) ==
  LET here == IF inst[i].version = Latest THEN Of(Page(inst[i].page), inst[i].agent)
              ELSE {r \in Listed : Tag(r) = <<inst[i].agent, inst[i].version>>}
  IN /\ inst[i].step = "resolve"
     /\ \/ \E r \in Newest(here) : Found(i, r)
        \/ /\ here = {}
           /\ IF inst[i].version = Latest /\ More(inst[i].page)
              THEN To(i, [inst[i] EXCEPT !.page = @ + 1, !.tries = 0])
              ELSE NextAgent(i, FALSE)
     /\ UNCHANGED <<shop, bin, faults, deleted, ran>>

\* DownloadAsset: the releases that the addresses of the release lead to now; the
\* assets of a release go with it.
Served(i) ==
  IF inst[i].token THEN Listed \cap {inst[i].rel}
  ELSE {r \in Listed : Tag(r) = Tag(inst[i].rel)}

Download(i, damaged) ==
  /\ inst[i].step = "download"
  /\ \E r \in Served(i) :
       /\ r.binary # None
       /\ To(i, [Start(i, IF inst[i].skip THEN "describe" ELSE "sums")
                 EXCEPT !.tmp = IF damaged THEN Damaged ELSE r.binary])
  /\ damaged => faults < MaxFaults
  /\ faults' = faults + (IF damaged THEN 1 ELSE 0)
  /\ UNCHANGED <<shop, bin, deleted, ran>>

\* Mutant: the checksum of an asset that is not listed is not missed.
VerifyIfListed(i) ==
  /\ inst[i].step = "sums"
  /\ \/ \E r \in Served(i) : r.sums = inst[i].tmp /\ To(i, Start(i, "describe"))
     \/ \E r \in Served(i) : r.sums \notin {None, inst[i].tmp} /\ NextAgent(i, FALSE)
     \/ inst[i].rel.sums = None /\ To(i, Start(i, "describe"))
  /\ UNCHANGED <<shop, bin, faults, deleted, ran>>

\* verifyReleaseAsset: the release that was resolved has checksums, and those fetched
\* now name the binary.
Verify(i) ==
  /\ inst[i].step = "sums"
  /\ IF inst[i].rel.sums = None THEN NextAgent(i, FALSE)
     ELSE \E r \in Served(i) :
            /\ r.sums # None
            /\ IF r.sums = inst[i].tmp THEN To(i, Start(i, "describe")) ELSE NextAgent(i, FALSE)
  /\ UNCHANGED <<shop, bin, faults, deleted, ran>>

\* The binary is made executable and run; a damaged one does not answer.
Describe(i) ==
  /\ inst[i].step = "describe"
  /\ ran' = ran \cup {[content |-> inst[i].tmp, rel |-> inst[i].rel, skip |-> inst[i].skip,
                       token |-> inst[i].token]}
  /\ IF inst[i].tmp = Damaged THEN NextAgent(i, FALSE) ELSE To(i, Start(i, "place"))
  /\ UNCHANGED <<shop, bin, faults, deleted>>

\* Installers that write the binary of agent a.
Placing(a) == {k \in Installers : inst[k] # Idle /\ inst[k].step = "placing" /\ inst[k].agent = a}

\* CopyFile truncates the installed binary.
PlaceStart(i) ==
  /\ inst[i].step = "place"
  /\ bin' = [bin EXCEPT ![inst[i].agent] = IF Placing(inst[i].agent) = {} THEN Torn ELSE Damaged]
  /\ To(i, Start(i, "placing"))
  /\ UNCHANGED <<shop, faults, deleted, ran>>

\* It is written whole, unless somebody else has been writing it.
Copied(i) ==
  IF bin[inst[i].agent] = Torn /\ Placing(inst[i].agent) = {i} THEN {inst[i].tmp}
  ELSE {inst[i].tmp, Damaged}

PlaceEnd(i) ==
  /\ inst[i].step = "placing"
  /\ \E c \in Copied(i) : bin' = [bin EXCEPT ![inst[i].agent] = c]
  /\ NextAgent(i, TRUE)
  /\ UNCHANGED <<shop, faults, deleted, ran>>

\* The configs cannot be planned or the binary cannot be opened; or the copy fails
\* half way; or something fails when the binary is in place.
PlaceFails(i) ==
  /\ faults < MaxFaults /\ faults' = faults + 1
  /\ \/ inst[i].step \in {"place", "placing"} /\ UNCHANGED bin
     \/ /\ inst[i].step = "placing"
        /\ \E c \in Copied(i) : bin' = [bin EXCEPT ![inst[i].agent] = c]
  /\ NextAgent(i, FALSE)
  /\ UNCHANGED <<shop, deleted, ran>>

\* A request fails for good: listing fails the command, the others the agent.
Lost(i) == IF inst[i].step = "list" THEN To(i, [inst[i] EXCEPT !.step = "error"])
           ELSE NextAgent(i, FALSE)

\* RoundTrip: 429, 502, 503, 504 and connection errors are tried again.
Transient(i) ==
  /\ Asking(i)
  /\ faults < MaxFaults /\ faults' = faults + 1
  /\ IF inst[i].tries < MaxRetries THEN To(i, [inst[i] EXCEPT !.tries = @ + 1]) ELSE Lost(i)
  /\ UNCHANGED <<shop, bin, deleted, ran>>

\* Any other status is final; so is an asset that is not there any more.
Refused(i) ==
  /\ Asking(i)
  /\ \/ /\ inst[i].step = "download" /\ \A r \in Served(i) : r.binary = None
        /\ UNCHANGED faults
     \/ /\ inst[i].step = "sums" /\ \A r \in Served(i) : r.sums = None
        /\ UNCHANGED faults
     \/ faults < MaxFaults /\ faults' = faults + 1
  /\ Lost(i)
  /\ UNCHANGED <<shop, bin, deleted, ran>>

Installing(i) ==
  \/ ListPage(i) \/ Resolve(i) \/ Verify(i) \/ Describe(i) \/ PlaceStart(i) \/ PlaceEnd(i)
  \/ PlaceFails(i) \/ Transient(i) \/ Refused(i)
  \/ \E a \in Agents \cup {Repo} : Pick(i, a)
  \/ \E damaged \in BOOLEAN : Download(i, damaged)

InstallStep(i) == inst[i] # Idle /\ ~Ended(i) /\ Installing(i)

Next ==
  \/ \E p \in Publishers, as \in (SUBSET Agents) \ {{}}, v \in Versions : StartPublish(p, as, v)
  \/ \E p \in Publishers, a \in Agents : Compile(p, a)
  \/ \E p \in Publishers : Sum(p) \/ CreateRelease(p) \/ PublishFails(p)
  \/ \E k \in DOMAIN repo : DeleteRelease(k)
  \/ \E i \in Installers, o \in Orders : StartInstall(i, o)
  \/ \E i \in Installers : InstallStep(i)

Spec == Init /\ [][Next]_vars

(* ---- properties ---- *)

\* A release made by a publish that had build/publish to itself is what its tag
\* says, and its checksum fits: it can be installed.
ReleaseIsAsTagged ==
  \A k \in DOMAIN repo :
    LET r == repo[k]
    IN r.by \in Publishers \ overlap =>
         /\ r.binary.agent = r.agent /\ r.binary.version = r.version
         /\ r.sums = r.binary

\* The checksums of release r are those that a binary fetched for release rel may be
\* compared with: of the same tag, and with a token of the same release.
Vouches(r, rel, token) == Tag(r) = Tag(rel) /\ (token => r = rel)

VerifiedRuns ==
  \A x \in ran : x.skip \/ \E r \in issued : Vouches(r, x.rel, x.token) /\ x.content = r.sums

PlacedWasRun ==
  \A a \in DOMAIN bin : bin[a] \in Content => \E x \in ran : x.content = bin[a] /\ x.rel.agent = a

\* An installer that is to blame for a torn binary of agent a.
Blamed(j, a) == j # Idle /\ ((j.step = "placing" /\ j.agent = a) \/ a \in j.failed)

TornIsReported ==
  \A a \in DOMAIN bin : bin[a] = Torn => \E i \in Installers : Blamed(inst[i], a)

\* Without --insecure-skip-checksum nothing is run that is not the very content named
\* by the checksums of a release that was made under the tag asked for; although
\* binary and checksums are fetched at different times, and a release may be deleted
\* and another made under its tag in between.  And nothing is installed that has not
\* been run, nor left half written by an install that says it went well.
OnlyVerifiedRuns == VerifiedRuns /\ PlacedWasRun /\ TornIsReported

\* An install that ends well has, for each of its agents, a release no older than
\* the one that was the newest when it began, and with --all an agent left out had
\* no release then: although releases are published between two pages.  (Deleting
\* one moves the pages the other way, and may hide a release.)
InstallsTheLatest ==
  \A i \in Installers :
    inst[i].step = "ok" /\ inst[i].version = Latest /\ inst[i].gone = deleted =>
      /\ \A r \in inst[i].installed :
           r.agent \in Agents => \A id \in inst[i].heads[r.agent] : r.id >= id
      /\ inst[i].all => \A a \in Agents :
           inst[i].heads[a] # {} => \E r \in inst[i].installed : r.agent = a

(* ---- the inductive invariant ---- *)

Steps == {"list", "pick", "resolve", "download", "sums", "describe", "place", "placing",
          "ok", "error"}

Installs ==
  [step : Steps, all : BOOLEAN, todo : SUBSET Names, version : Versions \cup {Latest},
   skip : BOOLEAN, token : BOOLEAN, agent : Names \cup {None}, rel : Release \cup {None},
   tmp : Content \cup {None, Damaged}, page : Nat, tries : Nat,
   seen : SUBSET (Names \cup {Plain}), failed : SUBSET (Names \cup {None}),
   installed : SUBSET (Release \cup {None}), heads : [Agents -> SUBSET Nat], gone : Nat]

Publishes ==
  [step : {"compile"}, todo : SUBSET Agents, version : Versions]
    \cup [step : {"sum", "release"}, agent : Agents, todo : SUBSET Agents, version : Versions]
    \cup [step : {"done", "failed"}]

TypeOK ==
  /\ repo \in Seq(Release) /\ created \in Nat /\ builds \in Nat
  /\ dir \in [Agents -> [bin : Content \cup {None}, sums : Content \cup {None}]]
  /\ pub \in [Publishers -> Publishes \cup {Idle}]
  /\ inst \in [Installers -> Installs \cup {Idle}]
  /\ bin \in [Names -> Content \cup {None, Damaged, Torn}]
  /\ faults \in Nat /\ deleted \in Nat
  /\ overlap \subseteq Publishers
  /\ issued \subseteq Release
  /\ ran \subseteq [content : Content \cup {None, Damaged}, rel : Release, skip : BOOLEAN,
                    token : BOOLEAN]

\* An install works on a release of its agent, runs what it has compared, and
\* puts in place what it has run.
Right(j, runs, rs) ==
  /\ j.step \in {"resolve", "download", "sums", "describe", "place", "placing"} => j.agent \in Names
  /\ j.step \in {"download", "sums", "describe", "place", "placing"} =>
       j.rel \in Release /\ j.rel.agent = j.agent
  /\ j.step = "describe" =>
       j.skip \/ \E r \in rs : Vouches(r, j.rel, j.token) /\ j.tmp = r.sums
  /\ j.step \in {"place", "placing"} =>
       \E x \in runs : x.content = j.tmp /\ x.rel.agent = j.agent

InstallUnderWay == \A i \in Installers : Right(inst[i], ran, issued)

ListedWereIssued == Listed \subseteq issued

\* Publishers that run at once are known, and one that runs alone finds in
\* build/publish what it has put there.
PublishUnderWay ==
  \A p \in Publishers :
    /\ \A q \in Publishers \ {p} : Publishing(p) /\ Publishing(q) => p \in overlap
    /\ p \notin overlap /\ pub[p].step \in {"sum", "release"} =>
         LET b == dir[pub[p].agent].bin
         IN /\ b \in Content /\ b.agent = pub[p].agent /\ b.version = pub[p].version
            /\ pub[p].step = "release" => dir[pub[p].agent].sums = b

IInv ==
  /\ TypeOK /\ InstallUnderWay /\ ListedWereIssued /\ PublishUnderWay
  /\ ReleaseIsAsTagged /\ OnlyVerifiedRuns

\* The list is ordered, newest first, and the next release will be newer.
Ordered ==
  /\ \A m, n \in DOMAIN repo : m < n => repo[n].id < repo[m].id
  /\ \A n \in DOMAIN repo : repo[n].id <= created

\* The releases of an agent on page k and after.
Ahead(a, k) == {repo[n].id : n \in {n \in DOMAIN repo : (k - 1) * PageSize < n /\ repo[n].agent = a}}

\* What was the newest release is on a page still to come, or the one found is as new.
Current(j) ==
  /\ \A a \in Agents : j.heads[a] \subseteq Ahead(a, 1)
  /\ j.step = "resolve" /\ j.agent \in Agents => j.heads[j.agent] \subseteq Ahead(j.agent, j.page)
  /\ j.step \in {"download", "sums", "describe", "place", "placing"} /\ j.agent \in Agents =>
       \A id \in j.heads[j.agent] : j.rel.id >= id
  /\ \A r \in j.installed : r.agent \in Agents => \A id \in j.heads[r.agent] : r.id >= id

\* An agent that had a release is on a page still to come, waits, is being
\* installed or is installed, unless some agent has failed.
Counted(j, a) ==
  IF j.step = "list" THEN a \in j.seen \/ Ahead(a, j.page) # {}
  ELSE \/ j.step = "error" \/ j.failed # {} \/ a \in j.todo
       \/ j.step \notin {"pick", "ok"} /\ j.agent = a
       \/ \E r \in j.installed : r.agent = a

Abreast(j) ==
  j # Idle =>
    /\ j.page >= 1 /\ j.gone <= deleted
    /\ j.step = "ok" => j.failed = {} /\ j.todo = {}
    /\ j.version = Latest /\ j.gone = deleted =>
         /\ Current(j)
         /\ j.all => \A a \in Agents : j.heads[a] # {} => Counted(j, a)

InstallsAbreast == Ordered /\ \A i \in Installers : Abreast(inst[i])
==============================================================================
