-------------------------- MODULE MCMetricsReporter --------------------------
(***************************************************************************)
(* An instance of MetricsReporter for TLC.                                 *)
(***************************************************************************)
EXTENDS MetricsReporter, TLC

CONSTANTS Check, WhoCanAccess

Called(hit, candidates, filtered, resultSize, duration) ==
    [hit |-> hit, candidates |-> candidates, filtered |-> filtered,
     resultSize |-> resultSize, duration |-> duration]

(***************************************************************************)
(* What authz.go records (lines 116, 141, 197): a Check records the        *)
(* relations it sent to the backend as candidates of a miss, a lookup the  *)
(* candidates of a hit and those that the re-verification took out.  The   *)
(* misses of lookups, which record no candidates, are left out.            *)
(***************************************************************************)
RecordedOutcomes ==
    (Check :> {Called(TRUE, 0, 0, 1, 2), Called(FALSE, 1, 0, 1, 5)})
    @@ (WhoCanAccess :> {Called(TRUE, 3, 1, 2, 4)})

=============================================================================
