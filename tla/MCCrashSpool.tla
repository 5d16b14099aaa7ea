---------------------------- MODULE MCCrashSpool ----------------------------
(* CrashSpool with the processor configurations its runs use. *)
EXTENDS CrashSpool, TLC

\* data/etc/glaucium/dev_config.toml.
DevConfig == [dst |-> <<"fs", "es">>, saveRaw |-> TRUE, removeRaw |-> FALSE]

\* The defaults of save_raw_dump and remove_raw_dump.
DefaultConfig == [dst |-> <<"fs", "es">>, saveRaw |-> FALSE, removeRaw |-> FALSE]

\* Elasticsearch only, with the raw crash removed from the spool.
RemovingConfig == [dst |-> <<"es">>, saveRaw |-> FALSE, removeRaw |-> TRUE]

DevOnly    == {DevConfig}
KeepingConfigs == {DevConfig, DefaultConfig}
AllConfigs == KeepingConfigs \cup {RemovingConfig}

Symmetry == Permutations(Crashes) \cup Permutations(Workers) \cup Permutations(Handlers)
=============================================================================
