----------------------------- MODULE Surroundings ------------------------------
(***************************************************************************)
(* The modules around the core, side by side: the start of the servers, a  *)
(* server and its pool, the rate limiter, the list of secrets and the      *)
(* client's reading of them, the client's session and commands, the audit  *)
(* log.                                                                    *)
(*                                                                         *)
(* These parts share no state.  A behaviour chooses a part and stays with  *)
(* it, while the others keep their initial state, so that its states are   *)
(* those of the parts one after the other, and one run checks them all.    *)
(***************************************************************************)
EXTENDS Migrations, Server, RateLimiter, SecretsCommand, SessionFile,
        CommandLine, AuditTrail

VARIABLE part

PartsInit ==
    /\ StartInit /\ ServerInit /\ LimiterInit /\ CommandInit
    /\ SessionInit /\ LineInit /\ AuditInit
    /\ part \in {"start", "server", "limiter", "listing", "command",
                 "session", "line", "audit"}
    /\ part # "line" => store.secrets = 0
    /\ part # "audit" => admins = {} /\ belongs = {}

OnlyStart == UNCHANGED << serverVars, limiterVars, commandVars, sessionVars, lineVars,
                          auditVars >>
OnlyServer == UNCHANGED << startVars, limiterVars, commandVars, sessionVars, lineVars,
                           auditVars >>
OnlyLimiter == UNCHANGED << startVars, serverVars, commandVars, sessionVars, lineVars,
                            auditVars >>
OnlyListing == UNCHANGED << startVars, serverVars, limiterVars, versions, cmd, sessionVars,
                            lineVars, auditVars >>
OnlyCommand == UNCHANGED << startVars, serverVars, limiterVars, sessionVars, lineVars,
                            auditVars >>
OnlySession == UNCHANGED << startVars, serverVars, limiterVars, commandVars, lineVars,
                            auditVars >>
OnlyLine == UNCHANGED << startVars, serverVars, limiterVars, commandVars, sessionVars,
                         auditVars >>
OnlyAudit == UNCHANGED << startVars, serverVars, limiterVars, commandVars, sessionVars,
                          lineVars >>

PartsNext ==
    /\ UNCHANGED part
    /\ \/ part = "start" /\ StartNext /\ OnlyStart
       \/ part = "server" /\ ServerNext /\ OnlyServer
       \/ part = "limiter" /\ LimiterNext /\ OnlyLimiter
       \/ part = "listing" /\ ListingNext /\ OnlyListing
       \/ part = "command" /\ CommandNext /\ OnlyCommand
       \/ part = "session" /\ SessionNext /\ OnlySession
       \/ part = "line" /\ LineNext /\ OnlyLine
       \/ part = "audit" /\ AuditNext /\ OnlyAudit

allVars == << part, startVars, serverVars, limiterVars, commandVars, sessionVars,
              lineVars, auditVars >>

\* The fairness of Migrations and of Server, each in the behaviours of its part.
PartsFairness ==
    /\ \A s \in Servers : WF_allVars(part = "start" /\ StartStep(s) /\ OnlyStart /\ UNCHANGED part)
    /\ \A r \in Requests :
          WF_allVars(part = "server" /\ RequestStep(r) /\ OnlyServer /\ UNCHANGED part)
    /\ WF_allVars(part = "server" /\ Stop /\ OnlyServer /\ UNCHANGED part)

PartsSpec == PartsInit /\ [][PartsNext]_allVars /\ PartsFairness

\* The type invariants of all parts.
PartsTypeOK ==
    /\ StartTypeOK /\ ServerTypeOK /\ LimiterTypeOK /\ ListingTypeOK /\ CommandTypeOK
    /\ SessionTypeOK /\ LineTypeOK /\ AuditTypeOK

\* SomeoneServes, of the behaviours that start servers: without faults, one of
\* those that start together comes to serve (migrate.go:30).
StartedServes == part = "start" => SomeoneServes
================================================================================
