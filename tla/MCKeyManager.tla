---------------------------- MODULE MCKeyManager ----------------------------
EXTENDS KeyManager

\* Processes are alike: the one that calls first is the same in every behaviour.
OneCallsFirst == calls # << >> => calls[1].proc = CHOOSE p \in Processes : TRUE

=============================================================================
