----------------------------- MODULE MCReporting -----------------------------
(***************************************************************************)
(* Three occurrences: two of one issue, at one place and at none, and one  *)
(* of a detection template.  The sightings disagree on purpose: the worst  *)
(* severity has no CVSS and the lesser asset.                              *)
(***************************************************************************)
EXTENDS Reporting

MCIssueOf == [o \in Occurrences |-> IF o = 3 THEN "tech" ELSE "sqli"]
MCPlaceOf == [o \in Occurrences |-> IF o = 2 THEN "none" ELSE "login"]
Seen(severity, cvss, criticality, artefacts) ==
  [severity |-> severity, cvss |-> cvss, criticality |-> criticality, evidence |-> artefacts]
MCSightings ==
  {Seen("critical", -1, "medium", {"output"}), Seen("low", 50, "critical", {"shot", "output"})}
MCCatalogue == [k \in {"sqli", "tech"} |-> {k}]

ReportingSpec == ReportingInit /\ [][ReportingNext]_reportingVars
=============================================================================
