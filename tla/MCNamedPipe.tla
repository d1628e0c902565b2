---------------------------- MODULE MCNamedPipe ----------------------------
(* Instances of NamedPipe for TLC: the masks of each script and one thread *)
(* or two. *)
EXTENDS NamedPipe, TLC

ReadMasks == {{}, {READER}}
WriteMasks == {{}, {WRITER}}
AllMasks == SUBSET Dirs
NoMasks == {{}}

\* Threads differ in nothing but their names
ThreadSymmetry == Permutations(Threads)

\* Everything but told, which no action and no safety property reads
SafetyView == <<chanVars, ioVars, procVars, events, asleep, envVars>>
=============================================================================
