------------------------------ MODULE ReconWeb ------------------------------
(***************************************************************************)
(* The recon tool in mode "url" (tools/recon_tool.py) and the script       *)
(* behind it, recon_web (recon.py): an inventory of a web target made in   *)
(* five stages against one deadline, with a crawl in waves of concurrent   *)
(* requests - and the wall after which the tool kills the script.          *)
(*                                                                         *)
(* Time is a clock in coarse units.  A wave is one step: its requests      *)
(* start together and the thread pool is left when the last one is over;   *)
(* their answers go into a dict that is read by key or sorted, so their    *)
(* order does not matter.  Paths are numbered in the order of sorted(); a  *)
(* list of paths is a function from each path to its place.                *)
(***************************************************************************)
EXTENDS Integers, FiniteSets, Functions

CONSTANTS
    Paths,
    Seeds,              \* the path of the URL, then CRAWL_PATHS
    SensitivePaths,     \* SENSITIVE_PATHS
    Sites,              \* which page links to which: what a target may be
    WaveSize,
    MaxRequests,
    Depths,             \* levels of the crawl
    Deadline,
    PortsReserve, VhostsReserve, CrawlReserve, SensitiveReserve,
                        \* time that must be left to begin a stage
    PortsTime,          \* longest port scan
    BaseTimeout, VhostTimeout, PageTimeout, MinTimeout,
    MaxOperations,      \* bound: how often one request blocks on its socket,
                        \* redirects included; the target decides
    VhostWaves,
    Wall                \* RECON_TIMEOUT_S of the tool

ASSUME ReconWebAssumption ==
    /\ Paths \subseteq Nat /\ IsFiniteSet(Paths)
    /\ \A list \in {Seeds, SensitivePaths} :
          /\ DOMAIN list \subseteq Paths /\ list \in [DOMAIN list -> Nat]
          /\ IsInjective(list)
    /\ Sites \subseteq [Paths -> SUBSET Paths]
    /\ {WaveSize, MaxOperations, Depths, MinTimeout} \subseteq Nat \ {0}
    /\ {MaxRequests, VhostWaves, Wall, PortsTime} \subseteq Nat
    /\ {BaseTimeout, VhostTimeout, PageTimeout} \subseteq Nat
    /\ Deadline \in Nat
    /\ {PortsReserve, VhostsReserve, CrawlReserve, SensitiveReserve} \subseteq 0 .. Deadline

VARIABLES
    site,           \* environment: links between the pages
    clock,
    tool,           \* "waiting", then "answered", "killed", "refused" or
                    \* "cancelled"
    stage,
    baseline,       \* did the base probe go through?
    vhostWaves,     \* waves of the vhost stage still to come
    depth,          \* level of the crawl
    frontier,       \* paths of this level
    todo,           \* those of the level or stage still to be asked for
    crawling,       \* inside the loop over a level
    results,        \* path -> "page" or "error"
    linked,         \* pages whose _links have not been taken yet
    requests,
    asked           \* history: requests per path, by crawl and sensitive stage

crawlVars == <<depth, frontier, todo, crawling, results, linked>>
countVars == <<requests, asked>>
reconVars == <<site, clock, tool, stage, baseline, vhostWaves, crawlVars, countVars>>

ReconInit ==
    /\ site \in Sites
    /\ clock = 0
    /\ tool = "waiting" /\ stage = "ports"
    /\ baseline = FALSE
    /\ vhostWaves = VhostWaves
    /\ depth = 0 /\ frontier = {} /\ todo = {} /\ crawling = FALSE
    /\ results = <<>> /\ linked = {}
    /\ requests = 0 /\ asked = [p \in Paths |-> 0]

-----------------------------------------------------------------------------
(* Time.                                                                   *)

Least(a, b) == IF a < b THEN a ELSE b

\* Mutant: the timeout does not look at the clock.
TimeoutFull(most) == most

\* A timeout is clamped to what is left, down to a floor.
Timeout(most) ==
    LET left == IF clock < Deadline THEN Least(most, Deadline - clock) ELSE 0 IN
    IF left < MinTimeout THEN MinTimeout ELSE left

\* Some requests in parallel.  The timeout is that of a socket: it starts
\* again with every operation that blocks (connect, TLS handshake, sending,
\* each recv of headers and body), on the first request and each redirect.
Takes(most) == clock' \in clock .. clock + MaxOperations * Timeout(most)

InTime == clock < Deadline
TimeFor(reserve) == clock + reserve < Deadline

\* The script lives until the tool kills it, and for good behind a call
\* that was cancelled.
Runs(s) ==
    /\ stage = s
    /\ \/ tool = "waiting" /\ clock <= Wall
       \/ tool = "cancelled"

-----------------------------------------------------------------------------
(* recon_web.                                                              *)

ScanPorts ==
    /\ Runs("ports")
    /\ stage' = "base"
    /\ IF TimeFor(PortsReserve) THEN clock' \in clock .. clock + PortsTime
       ELSE UNCHANGED clock
    /\ UNCHANGED <<site, tool, baseline, vhostWaves, crawlVars, countVars>>

\* Without a baseline all later stages are left out.
ProbeBase ==
    /\ Runs("base")
    /\ Takes(BaseTimeout)
    /\ stage' = "vhosts"
    /\ baseline' \in BOOLEAN
    /\ requests' = IF baseline' THEN requests + 1 ELSE requests
    /\ UNCHANGED <<site, tool, vhostWaves, crawlVars, asked>>

MoreVhosts ==
    /\ baseline /\ vhostWaves > 0 /\ InTime
    /\ vhostWaves = VhostWaves => TimeFor(VhostsReserve)

ProbeVhosts ==
    /\ Runs("vhosts") /\ MoreVhosts
    /\ Takes(VhostTimeout)
    /\ vhostWaves' = vhostWaves - 1
    /\ UNCHANGED <<site, tool, stage, baseline, crawlVars, countVars>>

LeaveVhosts ==
    /\ Runs("vhosts") /\ ~ MoreVhosts
    /\ IF baseline /\ TimeFor(CrawlReserve)
       THEN stage' = "crawl" /\ frontier' = DOMAIN Seeds
       ELSE stage' = "crawled" /\ UNCHANGED frontier
    /\ UNCHANGED <<site, clock, tool, baseline, vhostWaves, depth, todo, crawling,
                   results, linked, countVars>>

\* Requests the crawl and the sensitive paths have left.
Budget == IF Cardinality(DOMAIN results) < MaxRequests
          THEN MaxRequests - Cardinality(DOMAIN results) ELSE 0

\* The list that is gone through: a level of links is sorted.
Places ==
    IF stage \in {"crawled", "sensitive"} THEN SensitivePaths
    ELSE IF depth = 0 THEN Seeds
    ELSE [p \in Paths |-> p]

\* The first n of some paths of that list.
First(n, paths) ==
    {p \in paths : Cardinality({q \in paths : Places[q] < Places[p]}) < n}

\* The paths of a list that are asked for: new ones, within the budget.
NewOf(paths) == First(Budget, paths \ DOMAIN results)

\* Mutant: a level too few.
GoesDeeperLess == depth < Depths - 2

\* Links are taken after every level but the last.
GoesDeeper == depth < Depths - 1

MoreLevels == depth < Depths /\ InTime /\ NewOf(frontier) # {}

BeginLevel ==
    /\ Runs("crawl") /\ ~ crawling /\ MoreLevels
    /\ crawling' = TRUE
    /\ todo' = NewOf(frontier)
    /\ UNCHANGED <<site, clock, tool, stage, baseline, vhostWaves, depth, frontier,
                   results, linked, countVars>>

\* One more request for every path of a wave.
Ask(wave) ==
    /\ requests' = requests + Cardinality(wave)
    /\ asked' = [p \in Paths |-> IF p \in wave THEN asked[p] + 1 ELSE asked[p]]

CrawlWave ==
    LET wave == First(WaveSize, todo) IN
    /\ Runs("crawl") /\ crawling /\ todo # {} /\ InTime
    /\ Takes(PageTimeout)
    /\ todo' = todo \ wave
    /\ Ask(wave)
    /\ \E failed \in SUBSET wave :
          /\ results' = [p \in DOMAIN results \cup wave |->
                            IF p \in failed THEN "error"
                            ELSE IF p \in wave THEN "page" ELSE results[p]]
          /\ linked' = linked \cup (wave \ failed)
    /\ UNCHANGED <<site, tool, stage, baseline, vhostWaves, depth, frontier, crawling>>

\* All links that are new become the next level, sorted.
EndLevel ==
    LET found == (UNION {site[p] : p \in linked}) \ DOMAIN results IN
    /\ Runs("crawl") /\ crawling /\ (todo = {} \/ ~ InTime)
    /\ crawling' = FALSE
    /\ depth' = depth + 1
    /\ todo' = {}
    /\ IF GoesDeeper
       THEN frontier' = found /\ linked' = {}
       ELSE frontier' = {} /\ UNCHANGED linked
    /\ UNCHANGED <<site, clock, tool, stage, baseline, vhostWaves, results, countVars>>

LeaveCrawl ==
    /\ Runs("crawl") /\ ~ crawling /\ ~ MoreLevels
    /\ stage' = "crawled"
    /\ UNCHANGED <<site, clock, tool, baseline, vhostWaves, crawlVars, countVars>>

BeginSensitive ==
    /\ Runs("crawled")
    /\ IF baseline /\ TimeFor(SensitiveReserve)
       THEN stage' = "sensitive" /\ todo' = NewOf(DOMAIN SensitivePaths)
       ELSE stage' = "done" /\ UNCHANGED todo
    /\ UNCHANGED <<site, clock, tool, baseline, vhostWaves, depth, frontier, crawling,
                   results, linked, countVars>>

\* Mutant: the total is not looked at again.
SensitiveAll == First(WaveSize, todo)

\* A wave, cut to what is left of the total, which includes the base probe.
SensitivePart == First(Least(WaveSize, MaxRequests - requests), todo)

MoreSensitive == todo # {} /\ InTime /\ requests < MaxRequests

SensitiveWave ==
    /\ Runs("sensitive") /\ MoreSensitive
    /\ Takes(PageTimeout)
    /\ Ask(SensitivePart)
    /\ todo' = todo \ First(WaveSize, todo)
    /\ UNCHANGED <<site, tool, stage, baseline, vhostWaves, depth, frontier, crawling,
                   results, linked>>

LeaveSensitive ==
    /\ Runs("sensitive") /\ ~ MoreSensitive
    /\ stage' = "done"
    /\ UNCHANGED <<site, clock, tool, baseline, vhostWaves, crawlVars, countVars>>

Script ==
    \/ ScanPorts \/ ProbeBase \/ ProbeVhosts \/ LeaveVhosts
    \/ BeginLevel \/ CrawlWave \/ EndLevel \/ LeaveCrawl
    \/ BeginSensitive \/ SensitiveWave \/ LeaveSensitive

-----------------------------------------------------------------------------
(* The tool.                                                               *)

scriptVars == <<site, clock, stage, baseline, vhostWaves, crawlVars, countVars>>

\* Finalizing, an unknown mode, no script, or no process.
Refuse ==
    /\ tool = "waiting" /\ stage = "ports"
    /\ tool' = "refused"
    /\ UNCHANGED scriptVars

\* The process ended in time; what it wrote is the result.
Answer ==
    /\ Runs("done") /\ tool = "waiting"
    /\ tool' = "answered"
    /\ UNCHANGED scriptVars

\* Mutant: the readers are not cancelled but waited for.
KillScriptAndRead ==
    /\ tool = "waiting" /\ clock >= Wall
    /\ UNCHANGED reconVars

\* killpg; the readers are cancelled and nothing of the output is kept.
KillScript ==
    /\ tool = "waiting" /\ clock >= Wall
    /\ tool' = "killed"
    /\ UNCHANGED scriptVars

\* The phase cap: CancelledError is no TimeoutError, so nothing is killed.
Cancel ==
    /\ tool = "waiting"
    /\ tool' = "cancelled"
    /\ UNCHANGED scriptVars

CallOver ==
    /\ tool # "waiting"
    /\ UNCHANGED reconVars

ReconNext == Script \/ Refuse \/ Answer \/ KillScript \/ Cancel \/ CallOver

ReconSpec ==
    /\ ReconInit
    /\ [][ReconNext]_reconVars
    /\ WF_reconVars(Script) /\ WF_reconVars(Answer) /\ WF_reconVars(KillScript)

-----------------------------------------------------------------------------
(* Properties.                                                             *)

(***************************************************************************)
(* "crawl + sensitive combined": the two stages, which count separately    *)
(* from the base probe on and from each other, stay below one limit        *)
(* together, and the sensitive stage never carries the total beyond it.    *)
(* What is counted are paths asked for, as in the code: the requests that  *)
(* redirects cost come on top.  No path is asked for twice, though pages   *)
(* link to each other and to the seeds and the two lists overlap.          *)
(***************************************************************************)
WithinBudget ==
    LET pages == {p \in Paths : asked[p] > 0} IN
    /\ \A p \in pages : asked[p] = 1
    /\ Cardinality(pages) <= MaxRequests
    /\ stage = "sensitive" /\ pages # DOMAIN results => requests <= MaxRequests

\* The pages at a distance of k links from the seeds, over those answered.
Levels(links, pages) ==
    LET level[k \in 0 .. Depths] ==
            IF k = 0 THEN DOMAIN Seeds
            ELSE (UNION {links[p] : p \in level[k - 1] \cap pages})
                 \ (UNION {level[j] : j \in 0 .. k - 1})
    IN  level

Level == Levels(site, {p \in DOMAIN results : results[p] = "page"})

(***************************************************************************)
(* The crawl is breadth first: a page is asked for only when all pages     *)
(* nearer to the seeds have been, and when it ends with time and requests  *)
(* left, it has asked for every page at up to two links.                   *)
(***************************************************************************)
CrawlIsBreadthFirst ==
    /\ \A k \in 1 .. Depths :
          Level[k] \cap DOMAIN results # {} =>
              \A j \in 0 .. k - 1 : Level[j] \subseteq DOMAIN results
    /\ stage = "crawl" /\ ~ crawling /\ ~ MoreLevels /\ InTime /\ Budget > 0 =>
          \A k \in 0 .. Depths - 1 : Level[k] \subseteq DOMAIN results

\* What a request that begins now may still wait for.
TimeLeft == IF Deadline - clock > MinTimeout THEN Deadline - clock ELSE MinTimeout

(***************************************************************************)
(* However slow the target is, after the base probe only a wave that began *)
(* before the deadline ends behind it, and each of its operations waits at *)
(* most for what was left of the deadline then (or for the shortest        *)
(* timeout).  How many operations there are is the target's choice: one    *)
(* that sends byte by byte holds the wave for as long as it likes, so this *)
(* is no bound in seconds.                                                 *)
(***************************************************************************)
OverrunIsOneWave ==
    [][stage \notin {"ports", "base"} /\ clock' > Deadline /\ clock' # clock =>
         clock < Deadline /\ clock' - clock <= MaxOperations * TimeLeft]_reconVars

(***************************************************************************)
(* The model gets an answer, whatever the target does.                     *)
(***************************************************************************)
CallEnds == <>(tool # "waiting")

-----------------------------------------------------------------------------
(* What the repository says of the program and the code does not do.       *)

(***************************************************************************)
(* "so the JSON always completes before any wall": the deadline of the     *)
(* script and the wall of the tool are the same 25 seconds.                *)
(***************************************************************************)
CompletesBeforeWall == tool # "killed"

=============================================================================
