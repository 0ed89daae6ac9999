---------------------------- MODULE MCSpawnWorker ----------------------------
(* SpawnWorker on a small instance.                                        *)
EXTENDS SpawnWorker, TLC

CONSTANTS stdout, stderr, p1, p2

MCPipes == {stdout, stderr}
MCPorts == {p1, p2}
NoFaults == {}
OutputFails == {"output"}
AnyLine == {p1, p2, Chatter, Oversized}
OneLong == {p1, Oversized}
=============================================================================
