------------------------------ MODULE MCServices ------------------------------
(***************************************************************************)
(* One run for the two services all worker threads share: the transfer     *)
(* runtime of the process, with two destinations, their partial files and  *)
(* one more spelling of the first; and InvokeUi, with two workers over two *)
(* connections and three questions.  The part is chosen in the initial     *)
(* state; the other one rests in its own.                                  *)
(***************************************************************************)
EXTENDS TransferRuntime, UiDispatch, TLC

CONSTANTS dest, alias, part, aliasPart

ASSUME DispatchAssumption == MaxCalls \in Nat /\ MaxGeneration \in Nat

VARIABLE service

allVars == <<service, vars, uiVars>>

ServicesInit == service \in {"runtime", "dispatch"} /\ Init /\ UiInit
ServicesNext ==
    \/ service = "runtime" /\ Next /\ UNCHANGED <<service, uiVars>>
    \/ service = "dispatch" /\ UiNext /\ UNCHANGED <<service, vars>>

\* Nothing of a part that rests is enabled: fairness asks nothing of it.
ServicesSpec == ServicesInit /\ [][ServicesNext]_allVars /\ Fairness /\ UiFairness

-----------------------------------------------------------------------------
MCPartialOf == (dest :> part) @@ (alias :> aliasPart) @@ (part :> part) @@ (aliasPart :> aliasPart)
MCAliases == {<<dest, alias>>, <<alias, dest>>, <<part, aliasPart>>, <<aliasPart, part>>}
=============================================================================
