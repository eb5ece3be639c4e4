----------------------------- MODULE MCDevices -----------------------------
(* Two VMs connected with each other. *)
EXTENDS Devices

MCPeer == [v \in Vm |-> 1 - v]
MCLoopback == {<<1, 1>>}
MCDivisor == {<<0, 0>>}
Budget(t, u, c, k, f) == [thr |-> t, uart |-> u, rtc |-> c, keys |-> k, fatal |-> f]
\* Budgets in which the guests, the keyboard, the clock or shutdowns are the busiest.  In
\* the last three characters fill the FIFO of the console while its VM is shown.
MCBudgets == {Budget(2, 2, 0, 0, 0), Budget(3, 1, 0, 0, 0), Budget(0, 1, 0, 3, 0),
              Budget(0, 0, 0, 6, 0), Budget(0, 0, 0, 0, 2), Budget(1, 0, 0, 2, 1),
              Budget(0, 0, 3, 0, 0), Budget(0, 0, 2, 0, 1), Budget(0, 0, 1, 2, 0),
              Budget(3, 0, 0, 2, 0)}
=============================================================================
