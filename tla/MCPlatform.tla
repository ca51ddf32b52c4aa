------------------------------ MODULE MCPlatform ------------------------------
(***************************************************************************)
(* The components of the control plane that share no state with each       *)
(* other, checked side by side: a behaviour exercises the one component    *)
(* "part" names, and the others keep their initial state.  The state       *)
(* spaces are added and not multiplied.                                    *)
(***************************************************************************)
EXTENDS Retention, Backup, Accounts, Access, Assets, Findings, ScopePolicy,
        Locations, Alerts, MCReporting, Coverage, TLC

CONSTANT Components  \* the components this run exercises

\* The scan that went before is called s1, and what it found f1 (FindingsLater).
ASSUME PlatformAssumption ==
  /\ Components \subseteq {"retention", "backup", "accounts", "members", "proofs", "assets",
                          "findings", "scope", "locations", "alerts", "reporting", "coverage"}
  /\ "s1" \in Scans /\ "f1" \in Fingerprints

VARIABLE part

-----------------------------------------------------------------------------
(* Values of the constants                                                 *)

\* Retention: every age is past its limit at once.
MCDays == [report |-> 0, scan |-> 0, audit |-> 0]

\* Backup: an encrypting deployment that verifies, one whose key is missing,
\* one that copies off-site without verifying, and one in plain text.
Deployment(encrypt, key, verify, off) ==
  [encrypt |-> encrypt, key |-> key, verify |-> verify, offsite |-> off]
MCDeployments ==
  {Deployment(TRUE, TRUE, TRUE, TRUE), Deployment(TRUE, FALSE, TRUE, FALSE),
   Deployment(TRUE, TRUE, FALSE, TRUE), Deployment(FALSE, FALSE, TRUE, FALSE)}

\* Assets: three tools report one asset, each with its own keys and guesses.
MCReport ==
  [ua |-> [keys |-> {"is_api", "status"}, inferred |-> {"is_api"}],
   ub |-> [keys |-> {"auth", "title"}, inferred |-> {"auth"}],
   uc |-> [keys |-> {"status"}, inferred |-> {}]]

\* Findings: two spellings of one place.
MCLocation == [f \in Fingerprints |-> "/login"]

\* ScopePolicy: a root and a name below it; addresses 0 and 1 are private,
\* 3 and 4 multicast.  One site names a multicast range address by address.
MCNames == {<<"t">>, <<"w", "t">>}
MCRanges == {<<0, 0>>, <<1, 1>>, <<0, 1>>, <<1, 2>>, <<2, 2>>, <<3, 3>>, <<4, 4>>, <<3, 4>>}
MCAnswers == {{}, {0}, {2}}
MCSiteNets == {{<<0, 1>>}, {<<0, 0>>}, {<<0, 1>>, <<3, 3>>, <<4, 4>>}}

\* Locations: one request spelled in several ways, and others that differ.
MCUrls ==
  [kind : {"url"}, splits : {TRUE}, scheme : {"HTTP", "https"},
   authority : [user : {""}, host : {"H"}, port : {"none", "80", "443"}],
   path : {<<>>, <<<<"%", "2F">>>>, <<<<"%", "2f">>>>}, query : {<<>>}, fragment : {""}]
  \cup
  [kind : {"url"}, splits : {TRUE}, scheme : {"http", "ftp"},
   authority : [user : {""}, host : {"h"}, port : {""}],
   path : {<<<<"text", "/">>>>}, query : {<<>>}, fragment : {"f"}]
MCPlain ==
  [kind : {"plain"}, parts : {<<"B">>}, seps : {<<>>}, rest : {"none"}]
  \cup [kind : {"plain"}, parts : {<<".", "B">>}, seps : {<<"\\">>}, rest : {"line"}]
MCLowerOf == [H |-> "h", B |-> "b", HTTP |-> "http"] @@ ("2F" :> "2f")

\* Alerts: e-mail is on, or off on the worker with nobody to tell of system
\* alerts, or off altogether, or a workspace has no members.
Email(enabled, worker, members) ==
  [enabled |-> enabled, worker |-> worker, members |-> members, admins |-> worker]
MCEmail == {Email(TRUE, TRUE, TRUE), Email(TRUE, FALSE, TRUE),
            Email(FALSE, TRUE, TRUE), Email(TRUE, TRUE, FALSE)}

\* Coverage: a live service and a url of the same value, and a url elsewhere.
Surface(type, value, asks, params, scoped) ==
  [type |-> type, value |-> value, query |-> asks, params |-> params, api |-> asks,
   scoped |-> scoped, auth |-> "public", guarded |-> scoped]
MCSurfaces ==
  {Surface("http_service", "root", FALSE, FALSE, TRUE),
   Surface("url", "root", FALSE, TRUE, TRUE),
   Surface("url", "cdn", TRUE, FALSE, FALSE)}

-----------------------------------------------------------------------------
findingVars == <<vulns, scan, saw, tx, op>>

\* A scan that follows an earlier one, whose finding has the verdict v: the
\* analyst's requests themselves are exercised with the remediation workflow.
FindingsLater(v) ==
  /\ vulns = [f \in Fingerprints |->
                IF f = "f1" THEN [status |-> v, last |-> "s1", ancestor |-> None] ELSE None]
  /\ scan = [s \in Scans |-> [st |-> IF s = "s1" THEN "done" ELSE "running", cov |-> s = "s1"]]
  /\ saw = [s \in Scans |-> IF s = "s1" THEN {"f1"} ELSE {}]
  /\ tx = [s \in Scans |-> Rest(Empty)]
  /\ op = [c \in Clients |-> Idle]

\* The scans but one are over.
RetentionLater ==
  /\ clock = 0
  /\ rscan = [s \in ScanIds |-> [st |-> IF s = 1 THEN "running" ELSE "done", ts |-> 0]]
  /\ report = [r \in ReportIds |-> NoReport]
  /\ objects = {} /\ audit = {}
  /\ purge = [p \in Purges |-> Resting]
  /\ writer = [w \in Writers |-> Resting]

\* The backup directory holds nothing, or the set of an earlier successful run.
BackupLater ==
  /\ second = MaxSecond /\ config \in Deployments
  /\ run = [r \in Runs |-> NoRun] /\ offsite = {} /\ restore = NoRestore /\ rotted = 0
  /\ \E old \in {NoDir} \cup
         {[NoDir EXCEPT !.exists = TRUE, !.file = f, !.sum = f, !.manifest = "completed",
                        !.enc = config.encrypt, !.stamped = TRUE] :
            f \in IF config.encrypt /\ ~config.key THEN {}
                  ELSE {[c \in Parts |-> [NoFile EXCEPT !.data = "full", !.enc = config.encrypt]]}} :
       sets = [n \in SetNames |-> IF n = 0 THEN old ELSE NoDir]

\* Deployments, settings and answers of name servers differ only in the
\* behaviours of the component that reads them.
ScopeInit ==
  /\ settings \in [private : BOOLEAN, allowed : {{<<0, 1>>, <<3, 4>>}, {<<0, 0>>}},
                   excludes : {{}, {NameOf(<<"w", "t">>), RangeOf(<<2, 2>>)}}, backend : {TRUE}]
  /\ site = [workspace |-> "own", status |-> "active", cidrs |-> {<<0, 1>>}, dns |-> <<"r">>]
  /\ \E open \in {{0}, {2}}, inner \in {{0}} :
       dns = [r \in {"public", "r"} |-> [n \in Names |-> IF r = "public" THEN open ELSE inner]]
  /\ target = NoTarget /\ policy = NoPolicy /\ cache = <<>>
  /\ contacts = {} /\ verdicts = {} /\ changes = 0

Init ==
  /\ part \in Components
  /\ RetentionLater /\ AccountInit /\ AccessInit /\ AssetInit /\ ReportingInit
  /\ \/ FindingsInit
     \/ part = "findings" /\ \E v \in Settable : FindingsLater(v)
  /\ part # "members" => role = [m \in Members |-> IF m = CHOOSE o \in Members : TRUE
                                                  THEN "owner" ELSE "none"]
  /\ IF part = "backup" THEN BackupLater
     ELSE BackupInit /\ config = CHOOSE d \in Deployments : TRUE
  /\ ScopeInit
  /\ part # "scope" =>
       /\ settings = [private |-> TRUE, allowed |-> {<<0, 0>>}, excludes |-> {}, backend |-> TRUE]
       /\ dns["public"][<<"t">>] = {2}
  /\ LocationsInit
  /\ part # "locations" => parser = "nuclei"
  /\ AlertsInit
  /\ IF part = "alerts" THEN email \in MCEmail ELSE email = Email(TRUE, TRUE, TRUE)
  /\ CoverageInit
  /\ permit.granted /\ (permit.active <=> permit.tools = CoverageTools)
  /\ part # "coverage" => permit.active

\* Everything but the component p keeps its state.
Still(p) ==
  /\ UNCHANGED part
  /\ IF p = "retention" THEN TRUE ELSE UNCHANGED retentionVars
  /\ IF p = "backup" THEN TRUE ELSE UNCHANGED backupVars
  /\ IF p = "accounts" THEN TRUE ELSE UNCHANGED accountVars
  /\ IF p = "members" THEN TRUE ELSE UNCHANGED memberVars
  /\ IF p = "proofs" THEN TRUE ELSE UNCHANGED proofVars
  /\ IF p = "assets" THEN TRUE ELSE UNCHANGED assetVars
  /\ IF p = "findings" THEN TRUE ELSE UNCHANGED findingVars
  /\ IF p = "scope" THEN TRUE ELSE UNCHANGED scopeVars
  /\ IF p = "locations" THEN TRUE ELSE UNCHANGED locationVars
  /\ IF p = "alerts" THEN TRUE ELSE UNCHANGED alertVars
  /\ IF p = "reporting" THEN TRUE ELSE UNCHANGED reportingVars
  /\ IF p = "coverage" THEN TRUE ELSE UNCHANGED coverageVars

Next ==
  \/ part = "retention" /\ RetentionNext /\ Still("retention")
  \/ part = "backup" /\ BackupNext /\ Still("backup")
  \/ part = "accounts" /\ AccountNext /\ Still("accounts")
  \/ part = "members" /\ MemberNext /\ Still("members")
  \/ part = "proofs" /\ ProofNext /\ Still("proofs")
  \/ part = "assets" /\ AssetNext /\ Still("assets")
  \/ part = "findings" /\ FindingsAlone /\ Still("findings")
  \/ part = "scope" /\ ScopeNext /\ Still("scope")
  \/ part = "locations" /\ LocationsNext /\ Still("locations")
  \/ part = "alerts" /\ AlertsNext /\ Still("alerts")
  \/ part = "reporting" /\ ReportingNext /\ Still("reporting")
  \/ part = "coverage" /\ CoverageNext /\ Still("coverage")

vars == <<part, retentionVars, backupVars, accountVars, accessVars, assetVars, findingVars,
          scopeVars, locationVars, alertVars, reportingVars, coverageVars>>

Spec == Init /\ [][Next]_vars

-----------------------------------------------------------------------------
\* Every component's state stays well typed, whatever it does.
TypeOK ==
  CASE part = "retention" -> RetentionTypeOK
    [] part = "backup"    -> BackupTypeOK
    [] part = "accounts"  -> AccountTypeOK
    [] part \in {"members", "proofs"} -> AccessTypeOK
    [] part = "assets"    -> AssetTypeOK
    [] part = "findings"  -> FindingsTypeOK
    [] part = "scope"     -> ScopeTypeOK
    [] part = "locations" -> LocationsTypeOK
    [] part = "alerts"    -> AlertsTypeOK
    [] part = "reporting" -> ReportingTypeOK
    [] part = "coverage"  -> CoverageTypeOK
===============================================================================
