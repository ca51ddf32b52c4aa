------------------------------ MODULE ToolRuns ------------------------------
(***************************************************************************)
(* One tool run: a runner chooses its targets from the findings so far     *)
(* (_web.py and the runners), starts one child process or one per target,  *)
(* reads their output under time, output and memory limits                 *)
(* (base.run_with_timeout), kills what is left and reports an outcome that *)
(* classify_run turns into the tool run's status.                          *)
(*                                                                         *)
(* Children, their pipes, the timers and the caller's cancellation are     *)
(* concurrent. A child's output is counted in chunks; a pipe holds one.    *)
(* An arjun probe leaves its findings in a JSON file instead, which is     *)
(* worth something only once it is whole.                                  *)
(***************************************************************************)
EXTENDS Integers, Sequences, FiniteSets, SequencesExt

CONSTANTS Tools,        \* the runners
          Lines,        \* lines of output
          Priors,       \* lists of findings a run may start from
          MaxTargets,   \* MAX_FUZZ_TARGETS, param_discovery_max, MAX_FUZZ_URLS
          MaxConcurrent,\* children at once of a tool that fans out
          Cap,          \* chunks of output kept per child, when limited
          MaxOut        \* bound on the chunks a child writes

ASSUME ToolAssumption ==
    /\ MaxTargets \in Nat \ {0} /\ Cap \in Nat \ {0}
    /\ Tools \subseteq {"subfinder", "amass", "dnsx", "httpx", "naabu", "nmap", "whatweb", "nuclei",
                        "nuclei-dast", "katana", "ffuf", "arjun"}
    /\ \A prior \in Priors : prior \in Seq(ToSet(prior))

VARIABLES job,          \* the run's parameters, fixed when it starts
          child,        \* target number -> its process and what was read of it
          run           \* the runner's progress and, at the end, its report

toolVars == <<job, child, run>>

-----------------------------------------------------------------------------
(* Targets. A finding has a type, a host and, for an URL, its details.     *)

\* The elements of s at the positions I, in the order of s.
At(s, I) == [n \in 1..Cardinality(I) |-> s[CHOOSE i \in I : Cardinality({j \in I : j <= i}) = n]]

Where(Test(_), s) == At(s, {i \in DOMAIN s : Test(s[i])})

\* The first of each key stays.
DedupeBy(key(_), s) == At(s, {i \in DOMAIN s : \A j \in DOMAIN s : key(s[j]) = key(s[i]) => i <= j})

_dedupe(s) == DedupeBy(LAMBDA x : x, s)

Of(type, prior) == Where(LAMBDA f : f.type = type, prior)

Root(h) == [host |-> h, path |-> "", params |-> FALSE]

\* "http://h" and "http://h/" are one server.
_bare_host_dedupe_key(u) == IF u.path = "/" THEN [u EXCEPT !.path = ""] ELSE u

Value(f) == [host |-> f.host, path |-> f.path, params |-> f.params]
ValuesOf(fs) == [i \in DOMAIN fs |-> Value(fs[i])]

http_service_urls(prior) == DedupeBy(_bare_host_dedupe_key, ValuesOf(Of("http_service", prior)))

\* Each open port is tried as http and as https; here one target stands for both.
discovered_port_urls(prior) ==
    LET ports == Of("port", prior) IN
    _dedupe([i \in DOMAIN ports |-> Root(ports[i].host)])

\* Services, else open ports, else the target itself.
web_targets(target, prior) ==
    IF http_service_urls(prior) # <<>> THEN http_service_urls(prior)
    ELSE IF discovered_port_urls(prior) # <<>> THEN discovered_port_urls(prior)
    ELSE <<Root(target)>>

_root_is_fuzzable(f) == ~f.error

content_discovery_targets(target, prior) ==
    LET usable == Where(_root_is_fuzzable, Of("http_service", prior)) IN
    IF usable # <<>> THEN _dedupe(ValuesOf(usable))
    ELSE IF discovered_port_urls(prior) # <<>> THEN discovered_port_urls(prior)
    ELSE <<Root(target)>>

\* Arjun's first, then the other parameterised ones, then the rest.
crawled_urls(prior) ==
    LET urls == Of("url", prior)
        arjun == ValuesOf(Where(LAMBDA f : f.source = "arjun", urls))
        params == Where(LAMBDA u : u.params /\ u \notin ToSet(arjun), ValuesOf(urls))
        rest == Where(LAMBDA u : ~u.params, ValuesOf(urls))
    IN  _dedupe(arjun \o params \o rest)

\* Endpoints without their query; static files are left out.
param_discovery_targets(prior) ==
    LET bases == LET urls == ValuesOf(Of("url", prior)) IN
                 _dedupe([i \in DOMAIN urls |-> [urls[i] EXCEPT !.params = FALSE]])
    IN  Where(LAMBDA u : u.path # "static", bases)

_available_urls(target, prior) ==
    IF crawled_urls(prior) # <<>> THEN crawled_urls(prior) ELSE web_targets(target, prior)

First(n, s) == SubSeq(s, 1, IF Len(s) < n THEN Len(s) ELSE n)

\* The target and the subdomains found.
_host_set(target, prior) ==
    LET subs == Of("subdomain", prior) IN
    _dedupe(<<Root(target)>> \o [i \in DOMAIN subs |-> Root(subs[i].host)])

\* naabu: the target and the web servers found, the subdomains when there are none.
naabu_hosts(target, prior) ==
    LET web == Of("http_service", prior) IN
    IF web = <<>> THEN _host_set(target, prior)
    ELSE _dedupe(<<Root(target)>> \o [i \in DOMAIN web |-> Root(web[i].host)])

\* nmap: the hosts with open ports, or the target.
_targets_and_ports(target, prior) ==
    IF Of("port", prior) = <<>> THEN <<Root(target)>> ELSE discovered_port_urls(prior)

Resolvable(hosts) == Where(LAMBDA u : u.host # "unresolvable", hosts)

\* The targets each runner's run() gives its children. httpx, naabu and nmap
\* drop the hosts that do not resolve.
subfinder_run(target, prior) == <<Root(target)>>
amass_run(target, prior) == <<Root(target)>>
dnsx_run(target, prior) == _host_set(target, prior)
httpx_run(target, prior) == Resolvable(_host_set(target, prior))
naabu_run(target, prior) == Resolvable(naabu_hosts(target, prior))
nmap_run(target, prior) == Resolvable(_targets_and_ports(target, prior))
whatweb_run(target, prior) == web_targets(target, prior)
nuclei_run(target, prior) == web_targets(target, prior)
nuclei_dast_run(target, prior) == First(MaxTargets, _available_urls(target, prior))
katana_run(target, prior) == web_targets(target, prior)
ffuf_run(target, prior) == First(MaxTargets, content_discovery_targets(target, prior))
arjun_run(target, prior) == First(MaxTargets, param_discovery_targets(prior))

TargetsOf(tool, target, prior) ==
    CASE tool = "subfinder" -> subfinder_run(target, prior)
      [] tool = "amass" -> amass_run(target, prior)
      [] tool = "dnsx" -> dnsx_run(target, prior)
      [] tool = "httpx" -> httpx_run(target, prior)
      [] tool = "naabu" -> naabu_run(target, prior)
      [] tool = "nmap" -> nmap_run(target, prior)
      [] tool = "whatweb" -> whatweb_run(target, prior)
      [] tool = "nuclei" -> nuclei_run(target, prior)
      [] tool = "nuclei-dast" -> nuclei_dast_run(target, prior)
      [] tool = "katana" -> katana_run(target, prior)
      [] tool = "ffuf" -> ffuf_run(target, prior)
      [] tool = "arjun" -> arjun_run(target, prior)

-----------------------------------------------------------------------------
(* Parsing. A line of output is a record or is not; a record names a host  *)
(* and has, or lacks, what the runner asks of it (an open port, an answer, *)
(* parameters). The findings of nuclei and katana: module Locations.       *)

Made(type, ls) == [i \in DOMAIN ls |-> [type |-> type, host |-> ls[i].host]]
Records(ls) == Where(LAMBDA l : l.record, ls)
Complete(ls) == Where(LAMBDA l : l.record /\ l.complete, ls)

subfinder_parse(ls) == Made("subdomain", Records(ls))
amass_parse(ls) == _dedupe(Made("subdomain", Records(ls)))
dnsx_parse(ls) == _dedupe(Made("subdomain", Complete(ls)))
httpx_parse(ls) == Made("http_service", Records(ls))
whatweb_parse(ls) == Made("http_service", Records(ls))
naabu_parse(ls) == Made("port", Complete(ls))
ffuf_parse(ls) == First(MaxTargets, _dedupe(Made("url", Records(ls))))
arjun_parse(ls) == Made("url", Complete(ls))
nuclei_parse(ls) == <<>>

\* nmap's output is one document: cut short, it yields nothing.
nmap_parse(ls, whole) == IF whole THEN Made("service", Complete(ls)) ELSE <<>>

\* One child reads all targets from its standard input, or one child each.
FanOut == {"katana", "ffuf", "arjun"}
Children == IF job.tool \notin FanOut /\ job.targets # <<>> THEN {1} ELSE DOMAIN job.targets

-----------------------------------------------------------------------------
(* One child: run_with_timeout                                             *)

NoChild == [st |-> "none", code |-> 0, pipe |-> <<>>, wrote |-> 0, kept |-> <<>>,
            whole |-> FALSE, pump |-> "on", end |-> "none"]

Reading(c) == child[c].end = "none" /\ child[c].pump = "on" /\ child[c].st # "none"

Writes(c) == child[c].st = "running" /\ child[c].wrote < MaxOut

\* The child fills its pipe and then waits for the reader.
Write(c, l) ==
    /\ job.tool # "arjun" /\ Writes(c) /\ child[c].pump # "eof" /\ child[c].pipe = <<>>
    /\ child' = [child EXCEPT ![c].pipe = <<l>>, ![c].wrote = @ + 1]
    /\ UNCHANGED <<job, run>>

\* A probe writes its -oJ file, and in the end closes the document.
WriteFile(c, l) ==
    /\ job.tool = "arjun" /\ Writes(c) /\ ~child[c].whole
    /\ child' = [child EXCEPT ![c].kept = Append(@, l), ![c].wrote = @ + 1]
    /\ UNCHANGED <<job, run>>

CloseFile(c) ==
    /\ job.tool = "arjun" /\ child[c].st = "running" /\ ~child[c].whole
    /\ child' = [child EXCEPT ![c].whole = TRUE]
    /\ UNCHANGED <<job, run>>

Exit(c, code) ==
    /\ child[c].st = "running"
    /\ child' = [child EXCEPT ![c].st = "exited", ![c].code = code]
    /\ UNCHANGED <<job, run>>

\* Only katana's runner sets limits.
Limited == job.tool = "katana"

\* _drain: a chunk is kept up to the limit; reaching it ends the reading.
Kept(k) ==
    [k EXCEPT !.pipe = <<>>, !.kept = @ \o k.pipe,
              !.pump = IF Limited /\ Len(k.kept) + 1 >= Cap THEN "cut" ELSE @]

Drain(c) ==
    /\ Reading(c) /\ child[c].pipe # <<>>
    /\ child' = [child EXCEPT ![c] = Kept(@)]
    /\ UNCHANGED <<job, run>>

\* _rss_watchdog: the child's memory passed the ceiling set for -jsluice.
RssLimit(c) ==
    /\ Limited /\ Reading(c) /\ child[c].st = "running"
    /\ child' = [child EXCEPT ![c].pump = "cut"]
    /\ UNCHANGED <<job, run>>

\* terminate_and_reap: SIGKILL, then a bounded wait; a child in the kernel
\* may survive it and is given up.
Reaped(k, s) == [k EXCEPT !.st = IF @ = "running" THEN s ELSE @, !.pipe = <<>>]

\* Mutant: the process is given up without being killed.
FinishChildUnreaped(c, s, end) == child' = [child EXCEPT ![c].end = end]

FinishChild(c, s, end) == child' = [child EXCEPT ![c] = [Reaped(@, s) EXCEPT !.end = end]]

\* Both streams are at their end: the child has exited, or has closed them
\* and goes on.
EndOfOutput(c) ==
    /\ Reading(c) /\ child[c].st \in {"running", "exited"} /\ child[c].pipe = <<>>
    /\ child' = [child EXCEPT ![c].pump = "eof"]
    /\ UNCHANGED <<job, run>>

\* "await proc.wait()", which no timer is set for.
WaitEnds(c) ==
    /\ child[c].end = "none" /\ child[c].pump = "eof" /\ child[c].st = "exited"
    /\ child' = [child EXCEPT ![c].end = "ok"]
    /\ UNCHANGED <<job, run>>

LimitReached(c, s) ==
    /\ child[c].end = "none" /\ child[c].pump = "cut"
    /\ FinishChild(c, s, "limited")
    /\ UNCHANGED <<job, run>>

\* The time limit is on the reading.
TimesOut(c, s) ==
    /\ job.timed /\ child[c].st # "none" /\ child[c].end = "none" /\ child[c].pump # "eof"
    /\ FinishChild(c, s, "timeout")
    /\ UNCHANGED <<job, run>>

\* The caller's task was cancelled: each child is killed on its own.
CancelChild(c, s) ==
    /\ run.pc = "cancelled" /\ child[c].st # "none" /\ child[c].end = "none"
    /\ FinishChild(c, s, "cancelled")
    /\ UNCHANGED <<job, run>>

-----------------------------------------------------------------------------
(* The runner                                                              *)

\* katana goes through its targets in order; the others fan out.
MayStart(c) ==
    /\ child[c].st = "none" /\ child[c].end = "none" /\ run.pc = "running"
    /\ IF job.tool = "katana" THEN \A d \in Children : d < c => child[d].end # "none"
       ELSE Cardinality({d \in Children : child[d].st # "none" /\ child[d].end = "none"}) < MaxConcurrent

Spawn(c) ==
    /\ MayStart(c)
    /\ child' = [child EXCEPT ![c].st = "running"]
    /\ UNCHANGED <<job, run>>

\* ffuf reports the target as failed; elsewhere the error ends the whole run,
\* and arjun's other probes go on by themselves.
SpawnFails(c) ==
    /\ MayStart(c)
    /\ IF job.tool = "ffuf" THEN child' = [child EXCEPT ![c].end = "error"] /\ UNCHANGED run
       ELSE run' = [run EXCEPT !.pc = "raised"] /\ UNCHANGED child
    /\ UNCHANGED job

\* katana: less than MIN_PER_TARGET_SECONDS of a configured budget is left.
BudgetExhausted ==
    /\ job.tool = "katana" /\ job.short /\ run.pc = "running"
    /\ \E c \in Children : MayStart(c) /\ c > 1
    /\ child' = [c \in DOMAIN child |-> IF child[c].st = "none" THEN [child[c] EXCEPT !.end = "skipped"]
                                        ELSE child[c]]
    /\ UNCHANGED <<job, run>>

Clean(c) == child[c].end = "ok" /\ child[c].code = 0

\* Mutant: one clean child makes a clean run.
aggregate_exitAny == IF \E c \in Children : Clean(c) THEN 0 ELSE -1

\* katana: zero only when every target completed
aggregate_exit == IF \A c \in Children : Clean(c) THEN 0 ELSE -1

\* arjun: zero when one probe was clean
probes_exit == IF \E c \in Children : Clean(c) THEN 0 ELSE 1

\* Mutant: the file of an arjun probe that timed out is not read.
DocumentsMutant ==
    [c \in Children |-> IF job.tool = "arjun" /\ (~child[c].whole \/ child[c].end = "timeout")
                        THEN <<>> ELSE child[c].kept]
\* What the runner has of each child's output. arjun reads the files of its
\* probes, also after a timeout, but one that is cut short does not parse.
Documents ==
    [c \in Children |-> IF job.tool = "arjun" /\ ~child[c].whole THEN <<>> ELSE child[c].kept]

\* The output of the children, in the order of the targets.
Output == FoldLeft(LAMBDA acc, c : acc \o Documents[c], <<>>, [c \in 1..Cardinality(Children) |-> c])

Whole == \A c \in Children : child[c].end = "ok"

Parsed(tool, ls) ==
    CASE tool = "subfinder" -> subfinder_parse(ls)
      [] tool = "amass" -> amass_parse(ls)
      [] tool = "dnsx" -> dnsx_parse(ls)
      [] tool = "httpx" -> httpx_parse(ls)
      [] tool = "whatweb" -> whatweb_parse(ls)
      [] tool = "naabu" -> naabu_parse(ls)
      [] tool = "nmap" -> nmap_parse(ls, Whole)
      [] tool = "ffuf" -> ffuf_parse(ls)
      [] tool = "arjun" -> arjun_parse(ls)
      [] tool \in {"nuclei", "nuclei-dast", "katana"} -> nuclei_parse(ls)

\* What the run() of each runner returns; without targets no child is started
\* and only arjun calls that a success.
RawToolOutput ==
    [exit |-> IF Children = {} THEN IF job.tool = "arjun" THEN 0 ELSE -1
              ELSE IF job.tool \in {"katana", "ffuf"} THEN aggregate_exit
              ELSE IF job.tool = "arjun" THEN probes_exit
              ELSE IF child[1].end = "ok" THEN child[1].code ELSE -1,
     timed_out |-> \E c \in Children : child[c].end = "timeout",
     stdout |-> Output # <<>>]

classify_run(raw) ==
    IF raw.exit = 0 THEN "completed" ELSE IF raw.stdout THEN "partial" ELSE "failed"

Return ==
    /\ run.pc = "running" /\ \A c \in Children : child[c].end # "none"
    /\ LET status == classify_run(RawToolOutput) IN
       run' = [pc |-> "returned", raw |-> RawToolOutput, status |-> status,
               found |-> IF status = "failed" THEN <<>> ELSE Parsed(job.tool, Output)]
    /\ UNCHANGED <<job, child>>

\* _run_single_tool: an exception leaves a failed tool run.
CallerSeesError ==
    /\ run.pc = "raised" /\ run.status = "none"
    /\ run' = [run EXCEPT !.status = "failed"]
    /\ UNCHANGED <<job, child>>

\* The scan is cancelled, revoked or out of time.
Cancel ==
    /\ run.pc = "running" /\ run' = [run EXCEPT !.pc = "cancelled"]
    /\ UNCHANGED <<job, child>>

NotRun == [exit |-> 0, timed_out |-> FALSE, stdout |-> FALSE]

ToolInit ==
    /\ \E tool \in Tools, prior \in Priors, timed \in BOOLEAN, short \in BOOLEAN :
          /\ timed \/ tool = "nuclei"           \* only nuclei may run untimed
          /\ short => tool = "katana"
          /\ job = [tool |-> tool, timed |-> timed, short |-> short,
                    targets |-> TargetsOf(tool, "target", prior)]
    /\ child = [c \in Children |-> NoChild]
    /\ run = [pc |-> "running", raw |-> NotRun, status |-> "none", found |-> <<>>]

ToolNext ==
    \/ \E c \in Children :
          \/ \E l \in Lines : Write(c, l) \/ WriteFile(c, l)
          \/ CloseFile(c)
          \/ Spawn(c) \/ SpawnFails(c) \/ Drain(c) \/ RssLimit(c) \/ EndOfOutput(c) \/ WaitEnds(c)
          \/ \E code \in {0, 1} : Exit(c, code)
          \/ \E s \in {"killed", "stuck"} : LimitReached(c, s) \/ TimesOut(c, s) \/ CancelChild(c, s)
    \/ BudgetExhausted \/ Return \/ CallerSeesError \/ Cancel

\* The event loop runs its timers and callbacks; the children promise nothing.
ToolFairness ==
    \A c \in 1..MaxTargets :
        WF_toolVars(c \in Children /\ \E s \in {"killed", "stuck"} :
                       LimitReached(c, s) \/ TimesOut(c, s) \/ CancelChild(c, s))

-----------------------------------------------------------------------------
(* Properties                                                              *)

ToolTypeOK ==
    /\ run.pc \in {"running", "returned", "raised", "cancelled"}
    /\ \A c \in Children : Len(child[c].kept) <= child[c].wrote /\ (Limited => Len(child[c].kept) <= Cap)
    /\ \A i, j \in DOMAIN job.targets : i # j => job.targets[i] # job.targets[j]

(* A tool run that is called completed covered its targets: every process  *)
(* ended by itself with success and all it wrote was read (arjun excepted, *)
(* for which one clean probe is enough).                                   *)
CompletedIsCovered ==
    run.pc = "returned" /\ run.status = "completed" /\ ~run.raw.timed_out /\ job.tool # "arjun" =>
        \A c \in Children : /\ child[c].st = "exited" /\ child[c].code = 0
                            /\ Len(child[c].kept) = child[c].wrote

(* A tool run's status tells what it covered. Cut short: what its          *)
(* processes had written by then is still there (of an arjun probe, if the *)
(* file it was writing is whole), and the run is not called failed for     *)
(* want of a clean exit.                                                   *)
StatusTellsCoverage ==
    /\ CompletedIsCovered
    /\ run.pc = "returned" =>
        /\ (\E c \in Children : child[c].kept # <<>> /\ (job.tool = "arjun" => child[c].whole))
               => run.status # "failed"
        /\ run.status = "failed" => run.found = <<>>

Alive(c) == c \in Children /\ child[c].st = "running"
\* The child has closed its streams, and the runner waits for it to exit.
WaitedFor(c) == child[c].pump = "eof" /\ child[c].end = "none" /\ run.pc # "cancelled"
ChildAlive == (job.timed \/ run.pc = "cancelled") /\ \E c \in Children : Alive(c)
NoneAlive == \A c \in Children : Alive(c) => WaitedFor(c)

(* No child outlives its run for ever: with a time limit every process     *)
(* that was started ends or is given up, however the run itself ended, and *)
(* also when it waits for ever on a full pipe. The one exception lives on  *)
(* with its streams closed: the time limit is not on the wait for its      *)
(* exit, and only the run's cancellation ends it. Cancelled, every process *)
(* ends or is given up, with a time limit or without.                      *)
ChildrenEnd == ChildAlive ~> NoneAlive

\* "BOUNDED CLEANUP ... so there are no orphans and no unbounded waits".
NoUnboundedWait == ChildAlive ~> \A c \in Children : ~Alive(c)

=============================================================================
