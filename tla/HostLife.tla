------------------------------ MODULE HostLife ------------------------------
(* What the services of a host window (src/src/host.cpp) share: whether it *)
(* still runs, and whether its task runners may refuse a task.             *)
CONSTANT PostsMayFail   \* TRUE: TaskRunner::post may throw
VARIABLE running        \* HostWindowState::running

ASSUME HostLifeConstants == PostsMayFail \in BOOLEAN
=============================================================================
