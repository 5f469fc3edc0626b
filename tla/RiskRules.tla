------------------------------ MODULE RiskRules ------------------------------
(***************************************************************************)
(* The risk rules the monitor, the API and the dashboard share:            *)
(* shared/src/risk.ts.  Health factors are in wad and utilization in ray,  *)
(* as on chain; the shares the code holds as floating point numbers are    *)
(* integers over MILLION, so a comparison is exact.  Findings keep kind,   *)
(* severity and subject; their texts are left out.                         *)
(***************************************************************************)
EXTENDS WadRayMath, FiniteSets

CONSTANTS
    MILLION,            \* 1e6, the resolution of shares
    MAX_UINT256,        \* the health factor of an account without debt
    warning, danger,    \* HealthThresholds, wad
    highUtilization, criticalUtilization, utilizationJump,   \* MarketRiskConfig, ray
    lowLiquidityShare, staleWarningShare,                    \* over MILLION
    largeDebtUsd,       \* AccountRiskConfig, wad
    largeShareOfBorrows \* over MILLION

ASSUME RulesAssumption ==
    /\ MILLION \in Nat \ {0} /\ {danger, warning, MAX_UINT256} \subseteq Nat
    /\ {highUtilization, criticalUtilization, utilizationJump} \subseteq Nat
    /\ WAD <= danger /\ danger <= warning /\ warning < MAX_UINT256
    /\ 0 < highUtilization /\ highUtilization <= criticalUtilization
    /\ 0 < utilizationJump
    /\ {lowLiquidityShare, staleWarningShare, largeShareOfBorrows} \subseteq 0..MILLION
    /\ largeDebtUsd \in Nat \ {0}

Levels == {"SAFE", "WARNING", "DANGER", "LIQUIDATABLE", "UNKNOWN"}

classifyHealthFactor(healthFactor, priced) ==
    IF ~priced THEN "UNKNOWN"
    ELSE IF healthFactor = MAX_UINT256 THEN "SAFE"
    ELSE IF healthFactor < WAD THEN "LIQUIDATABLE"
    ELSE IF healthFactor < danger THEN "DANGER"
    ELSE IF healthFactor < warning THEN "WARNING"
    ELSE "SAFE"

(* Over MILLION; the code's null, for an account without debt, is -1. *)
distanceToLiquidation(healthFactor) ==
    IF healthFactor = MAX_UINT256 THEN -1
    ELSE IF healthFactor <= WAD THEN 0
    ELSE MILLION - (WAD * MILLION) \div healthFactor

Finding(kind, severity, subject) == [kind |-> kind, severity |-> severity, subject |-> subject]
If(condition, finding) == IF condition THEN {finding} ELSE {}
Apart(x, y) == IF x < y THEN y - x ELSE x - y

(* An observation of a market; previous is the set of the utilization seen at  *)
(* the last snapshot, empty before the first, and age is empty when unknown.   *)
evaluateMarket(m, previous, reserve) ==
    If(m.utilization >= criticalUtilization, Finding("HIGH_UTILIZATION", "critical", reserve))
    \cup If(m.utilization >= highUtilization /\ m.utilization < criticalUtilization,
            Finding("HIGH_UTILIZATION", "warning", reserve))
    \cup If(\E u \in previous : Apart(m.utilization, u) >= utilizationJump,
            Finding("ABNORMAL_UTILIZATION", "warning", reserve))
    \cup If(m.totalSupplied > 0 /\ (m.cash * MILLION) \div m.totalSupplied < lowLiquidityShare,
            Finding("LOW_LIQUIDITY", "critical", reserve))
    \cup If(m.priceStatus \in {"OK_PRIMARY_ONLY", "OK_FALLBACK"},
            Finding("ORACLE_DEGRADED", "warning", reserve))
    \cup If(m.priceStatus \notin {"OK", "OK_PRIMARY_ONLY", "OK_FALLBACK"},
            Finding("ORACLE_UNAVAILABLE", "critical", reserve))
    \cup If(m.priceStatus = "OK" /\ m.heartbeat > 0
              /\ \E age \in m.age : age * MILLION >= staleWarningShare * m.heartbeat,
            Finding("ORACLE_STALE_SOON", "warning", reserve))
    \cup If(m.deficit > 0, Finding("BAD_DEBT", "critical", reserve))

LevelFinding(level, account) ==
    If(level = "LIQUIDATABLE", Finding("LIQUIDATABLE", "critical", account))
    \cup If(level = "DANGER", Finding("NEAR_LIQUIDATION", "warning", account))
    \cup If(level = "UNKNOWN", Finding("UNPRICEABLE_ACCOUNT", "warning", account))

evaluateAccount(h, protocolBorrowsUsd, account) ==
    LET level == classifyHealthFactor(h.healthFactor, h.priced)
        large == \/ h.debtUsd >= largeDebtUsd
                 \/ /\ h.debtUsd > 0 /\ protocolBorrowsUsd > 0
                    /\ h.debtUsd * MILLION >= largeShareOfBorrows * protocolBorrowsUsd
    IN [level |-> level,
        findings |-> LevelFinding(level, account)
            \cup If(h.priced /\ h.debtUsd > 0 /\ h.collateralUsd < h.debtUsd,
                    Finding("POTENTIAL_BAD_DEBT", "critical", account))
            \cup If(large, Finding("LARGE_BORROW", "info", account))]
=============================================================================
