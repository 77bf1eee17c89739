---------------------------- MODULE MCFpmMaster ----------------------------
(***************************************************************************)
(* Instances of FpmMaster for TLC: pool configurations, bounds, symmetry.  *)
(***************************************************************************)
EXTENDS FpmMaster, TLC

Symmetric == Permutations(Pid)

\* A static pool of one worker and a dynamic pool of at most two.
MixedPM == <<"static", "dynamic">>
MixedMax == <<1, 2>>
MixedStart == <<0, 1>>
MixedMin == <<0, 1>>
MixedSpare == <<0, 1>>
MixedBudget == [conn |-> 0, command |-> 2, crash |-> 1, fork |-> 1]

\* A dynamic pool of at most two workers and an ondemand pool of one.
ServicePM == <<"dynamic", "ondemand">>
ServiceMax == <<2, 1>>
ServiceStart == <<1, 0>>
ServiceSpare == <<1, 0>>
ServiceBudget == [conn |-> 2, command |-> 1, crash |-> 0, fork |-> 0]

\* One pool alone.
Static == <<"static">>
Dynamic == <<"dynamic">>
Zero == <<0>>
One == <<1>>
Two == <<2>>
\* Bounds: what the world may do to the master and its workers.
Quiet == [conn |-> 0, command |-> 0, crash |-> 0, fork |-> 0]
CommandAndConnection == [Quiet EXCEPT !.conn = 1, !.command = 1]
OneCommand == [Quiet EXCEPT !.command = 1]
=============================================================================
