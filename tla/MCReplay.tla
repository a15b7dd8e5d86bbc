------------------------------ MODULE MCReplay ------------------------------
(* TopicReplay on every topic of at most MCLen slots. *)
EXTENDS TopicReplay

CONSTANT MCLen

MCTopics == UNION {[1 .. n -> Slot] : n \in 0 .. MCLen}
=============================================================================
