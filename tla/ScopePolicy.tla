---------------------------- MODULE ScopePolicy ----------------------------
(***************************************************************************)
(* Which addresses a scan may reach (net_policy.py, net_guard.py,          *)
(* site_dns.py, private_sites/service.py) and which hosts it may keep      *)
(* (scope_guard.py), while name servers change their answers and the       *)
(* operator changes the private site under a target.                       *)
(*                                                                         *)
(* An address is a number; a + Size is the IPv4-mapped IPv6 form of a. A   *)
(* host name is the sequence of its labels. A target or a finding names    *)
(* either a name or a range of addresses (a single address is a range).    *)
(***************************************************************************)
EXTENDS Integers, Sequences, FiniteSets, SequencesExt

CONSTANTS Names,        \* the host names that occur
          Ranges,       \* the address ranges that occur, as <<first, last>>
          Size,         \* number of IPv4 addresses
          Private,      \* addresses that are private, loopback, reserved, ...
          Multicast,    \* those of them that are only multicast
          Metadata,     \* cloud metadata addresses, all of them private
          Answers,      \* answers a name server may give, {} when it has none
          SiteNets,     \* lists of networks a site may authorize
          MaxChanges,   \* bound on changes made outside the scan
          MaxDecisions  \* bound on scope decisions and contacts of a scan

ASSUME ScopeAssumption ==
    /\ Size \in Nat \ {0} /\ Private \subseteq 0..Size - 1
    /\ Metadata \subseteq Private /\ Multicast \subseteq Private \ Metadata
    /\ \A r \in Ranges : r[1] \in 0..Size - 1 /\ r[2] \in r[1]..Size - 1
    /\ \A a \in Answers : a \subseteq 0..2 * Size - 1

VARIABLES settings,     \* the platform's switches
          site,         \* the private site's row
          dns,          \* current answers: resolver -> name -> addresses
          target,       \* the target row
          policy,       \* the network policy bound to the running scan
          cache,        \* names the scan has resolved, with the answer
          contacts,     \* ranges handed to a tool by this scan
          verdicts,     \* scope decisions taken by this scan
          changes

scopeVars == <<settings, site, dns, target, policy, cache, contacts, verdicts, changes>>

NameOf(n) == [kind |-> "name", name |-> n, range |-> <<0, 0>>]
RangeOf(r) == [kind |-> "range", name |-> <<>>, range |-> r]
IsAddress(v) == v.kind = "range" /\ v.range[1] = v.range[2]

\* `ip in net`: an IPv6 form is in no IPv4 network.
In(a, r) == a \in r[1]..r[2]

NoTarget == [value |-> NameOf(<<>>), private |-> FALSE]
NoPolicy == [bound |-> FALSE, private |-> FALSE, cidrs |-> {}, dns |-> <<>>]

\* _parse_cidrs: unparseable entries ("junk") are dropped.
_parse_cidrs(entries) == entries \cap Ranges

build_public_policy == [NoPolicy EXCEPT !.bound = TRUE]

build_private_policy(s) ==
    [bound |-> TRUE, private |-> TRUE, cidrs |-> _parse_cidrs(s.cidrs), dns |-> s.dns]

SiteRefused(s) ==
    \/ s.workspace # "own"                     \* get_site_for_workspace
    \/ s.status # "active"                     \* assert_site_scannable
    \/ _parse_cidrs(s.cidrs) = {}              \* authorized_networks

\* The policy a scan of target t may have, in a set: empty when refused.
build_scan_network_policy(t) ==
    IF ~t.private THEN {build_public_policy}
    ELSE IF SiteRefused(site) THEN {} ELSE {build_private_policy(site)}

-----------------------------------------------------------------------------
(* Addresses                                                               *)

_to_ip(a) == a % Size

allows_private_ip(p, a) == p.private /\ \E r \in p.cidrs : In(a, r)

_explicitly_allowed_host(a) == <<a, a>> \in settings.allowed

_in_allowed_cidrs(a) == \E r \in settings.allowed : In(a, r)

\* Mutant: any private address passes once private targets are on.
is_ip_allowedUnscoped(value, p) ==
    LET a == _to_ip(value) IN
    IF a \notin Private THEN TRUE ELSE settings.private /\ _in_allowed_cidrs(a)

is_ip_allowed(value, p) ==
    LET a == _to_ip(value) IN
    IF a \in Metadata
    THEN settings.private /\ _explicitly_allowed_host(a) /\ allows_private_ip(p, a)
    ELSE a \in Private => settings.private /\ _in_allowed_cidrs(a) /\ allows_private_ip(p, a)

\* A range that begins in private space must lie in one authorized CIDR;
\* `is_private_range` does not ask whether the edge is multicast.
_assert_network_within_policy(r, p) ==
    _to_ip(r[1]) \in Private \ Multicast => \E c \in p.cidrs : c[1] <= r[1] /\ r[2] <= c[2]

\* `_host_from_value` cuts at the first "/": of a range only its first
\* address is left.
_host_from_value(v) == IF v.kind = "range" THEN RangeOf(<<v.range[1], v.range[1]>>) ELSE v

-----------------------------------------------------------------------------
(* Names                                                                   *)

\* The first name server with an answer; there is no public fallback.
resolve_via_site_dns(n, servers) ==
    LET answering == {i \in DOMAIN servers : dns[servers[i]][n] # {}} IN
    IF ~settings.backend THEN {}
    ELSE UNION {dns[servers[i]][n] : i \in {i \in answering : \A j \in answering : i <= j}}

\* {} stands for a resolution error.
resolve_hostname(n, p) ==
    IF p.private THEN resolve_via_site_dns(n, p.dns) ELSE dns["public"][n]

\* At the API the name is resolved without the site's policy.
validate_target_value(v, p) ==
    LET h == _host_from_value(v)
        addrs == IF h.kind = "range" THEN {h.range[1]}
                 ELSE resolve_hostname(h.name, NoPolicy)
    IN  \A a \in addrs : is_ip_allowed(a, p)

\* "ok", "denied" or, for a name nobody answers, "unresolved".
resolve_and_validate(v, p) ==
    LET addrs == IF v.kind = "range" THEN {v.range[1], v.range[2]}
                 ELSE resolve_hostname(v.name, p)
    IN  IF addrs = {} THEN "unresolved"
        ELSE IF \E a \in addrs : ~is_ip_allowed(a, p) THEN "denied"
        ELSE IF v.kind = "range" /\ ~_assert_network_within_policy(v.range, p) THEN "denied"
        ELSE "ok"

-----------------------------------------------------------------------------
(* Scope of a finding                                                      *)

\* What a lookup of n yields in this scan: the cached answer if there is one.
_resolve_cached(n) == IF n \in DOMAIN cache THEN cache[n] ELSE resolve_hostname(n, policy)

\* The cache after the names ns have been looked up, failures included.
Remembered(ns) == [n \in ns \cup DOMAIN cache |-> _resolve_cached(n)]

Below(h, d) == IsSuffix(d, h)

\* An entry excludes the host spelled like it, and the names below a name.
_host_excluded(h) ==
    \E e \in settings.excludes :
        h = e \/ (h.kind = "name" /\ e.kind = "name" /\ Below(h.name, e.name))

_hostname_resolves_to(n, h) == IsAddress(h) /\ h.range[1] \in _resolve_cached(n)

\* A named host inside a range: every address it has must be.
_ip_host_in_range(h) ==
    IF h.kind = "range" THEN IsAddress(h) /\ In(h.range[1], target.value.range)
    ELSE LET addrs == _resolve_cached(h.name) IN
         addrs # {} /\ \A a \in addrs : In(a, target.value.range)

host_in_scope(h, roots) ==
    /\ ~_host_excluded(h)
    /\ IF target.value.kind = "range" THEN _ip_host_in_range(h)
       ELSE \/ h.kind = "name" /\ Below(h.name, target.value.name)
            \/ \E n \in {target.value.name} \cup roots : _hostname_resolves_to(n, h)

\* Named hosts under the target among the findings; their addresses count too.
derived_scope_roots(hosts) ==
    IF target.value.kind = "range" THEN {}
    ELSE {h.name : h \in {g \in hosts : g.kind = "name" /\ host_in_scope(g, {})}}

\* The names host_in_scope looks up: it stops at the first that answers.
Lookups(h, roots) ==
    LET d == target.value.name IN
    IF _host_excluded(h) THEN {{}}
    ELSE IF target.value.kind = "range" THEN {IF h.kind = "name" THEN {h.name} ELSE {}}
    ELSE IF ~IsAddress(h) THEN {{}}
    ELSE IF _hostname_resolves_to(d, h) THEN {{d}}
    ELSE LET hits == {n \in roots : _hostname_resolves_to(n, h)} IN
         IF hits = {} THEN {{d} \cup roots}
         ELSE {{d, n} \cup missed : n \in hits, missed \in SUBSET (roots \ hits)}

-----------------------------------------------------------------------------
(* Actions                                                                 *)

\* create_target: the site, then the guard, then both ends inside the site.
CreateTarget(v, private) ==
    /\ target = NoTarget /\ ~policy.bound
    /\ \E p \in build_scan_network_policy([value |-> v, private |-> private]) :
        /\ validate_target_value(v, p)
        /\ private /\ v.kind = "range" =>
               \A a \in {v.range[1], v.range[2]} : allows_private_ip(p, _to_ip(a))
    /\ target' = [value |-> v, private |-> private]
    /\ UNCHANGED <<settings, site, dns, policy, cache, contacts, verdicts, changes>>

\* The scan builds its policy again and checks the target before any tool;
\* a name that does not resolve is left to the tools.
BeginScan ==
    /\ target # NoTarget /\ ~policy.bound
    /\ \E p \in build_scan_network_policy(target) :
        /\ resolve_and_validate(_host_from_value(target.value), p) # "denied"
        /\ policy' = p
    /\ cache' = <<>> /\ contacts' = {} /\ verdicts' = {}
    /\ UNCHANGED <<settings, site, dns, target, changes>>

\* A runner resolves a host itself and hands the address to its tool.
ResolveScanHost(v) ==
    /\ policy.bound
    /\ Cardinality(contacts) < MaxDecisions
    /\ v = target.value \/ \E d \in verdicts : d.host = v /\ d.ok
    /\ resolve_and_validate(v, policy) = "ok"
    /\ \/ v.kind = "range" /\ contacts' = contacts \cup {v.range}
       \/ v.kind = "name" /\ \E a \in resolve_hostname(v.name, policy) :
                                contacts' = contacts \cup {<<_to_ip(a), _to_ip(a)>>}
    /\ UNCHANGED <<settings, site, dns, target, policy, cache, verdicts, changes>>

\* partition_in_scope for one host h among the findings `hosts`.
DecideScope(h, hosts) ==
    /\ policy.bound /\ Cardinality(verdicts) < MaxDecisions
    /\ LET roots == derived_scope_roots(hosts) IN
        /\ verdicts' = verdicts \cup {[host |-> h, roots |-> roots, ok |-> host_in_scope(h, roots)]}
        /\ \E ns \in Lookups(h, roots) : cache' = Remembered(ns)
    /\ UNCHANGED <<settings, site, dns, target, policy, contacts, changes>>

EndScopedScan ==
    /\ policy.bound /\ policy' = NoPolicy
    /\ cache' = <<>> /\ contacts' = {} /\ verdicts' = {}
    /\ UNCHANGED <<settings, site, dns, target, changes>>

\* A name server answers differently from now on.
DnsChanges(r, n, a) ==
    /\ changes < MaxChanges /\ dns[r][n] # a
    /\ dns' = [dns EXCEPT ![r][n] = a] /\ changes' = changes + 1
    /\ UNCHANGED <<settings, site, target, policy, cache, contacts, verdicts>>

\* The operator suspends the site or narrows or widens its networks.
SiteRowChanges(s) ==
    /\ changes < MaxChanges /\ s # site
    /\ site' = s /\ changes' = changes + 1
    /\ UNCHANGED <<settings, dns, target, policy, cache, contacts, verdicts>>

Values == {NameOf(n) : n \in Names} \cup {RangeOf(r) : r \in Ranges}
Hosts == {NameOf(n) : n \in Names} \cup {v \in Values : IsAddress(v)}

ScopeNext ==
    \/ \E v \in Values, private \in BOOLEAN : CreateTarget(v, private)
    \/ BeginScan \/ EndScopedScan
    \/ \E v \in Values : ResolveScanHost(v)
    \/ \E h \in Hosts, g \in Hosts : DecideScope(h, {h, g})
    \/ \E r \in DOMAIN dns, n \in Names, a \in Answers : DnsChanges(r, n, a)
    \/ \E st \in {"active", "suspended"}, c \in SiteNets :
            SiteRowChanges([site EXCEPT !.status = st, !.cidrs = c])

-----------------------------------------------------------------------------
(* Properties                                                              *)

ScopeTypeOK ==
    /\ policy.private => policy.bound /\ policy.cidrs # {}
    /\ DOMAIN cache \subseteq Names /\ target.value \in Values \cup {NoTarget.value}
    /\ \A r \in contacts : r[1] <= r[2] /\ r[2] < Size

(* Whatever the name servers answered and the operator changed since the   *)
(* target was created, a private address, or a range that begins with one, *)
(* that resolve_and_validate hands to a tool lies in networks the scan's   *)
(* own site authorized, with the platform's private switch on.  Of a range *)
(* that begins in multicast space only the first address is promised.      *)
ContactsAuthorized ==
    \A r \in contacts : r[1] \in Private =>
        /\ settings.private /\ target.private
        /\ \A a \in r[1]..r[2] :
              a = r[1] \/ r[1] \notin Multicast => \E c \in policy.cidrs : In(a, c)

(* The lookups of one scan stick (scope_guard.resolution_cache_scope): the *)
(* same host among the same named hosts is not kept once and dropped later *)
VerdictsStick ==
    \A d, e \in verdicts : d.host = e.host /\ d.roots = e.roots => d.ok = e.ok

(* What a scan touches is authorized, and its own verdicts agree.          *)
ScopeHolds == ContactsAuthorized /\ VerdictsStick
=============================================================================
