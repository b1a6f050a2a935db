----------------------------- MODULE MCInstaller -----------------------------
(* Values for TLC: Codex's configuration and a skill file. *)
EXTENDS Installer, TLC

CONSTANTS config, skill

MCOrder == <<config, skill>>
MCWhole == {skill}

Symmetric == Permutations(Procs)
=============================================================================
