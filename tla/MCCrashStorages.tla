-------------------------- MODULE MCCrashStorages --------------------------
(* CrashStorages with three upload fields and the configurations its runs use. *)
EXTENDS CrashStorages

Config(classes, dst, saveRaw, removeRaw, web) ==
    [classes |-> classes, dst |-> dst, saveRaw |-> saveRaw, removeRaw |-> removeRaw, web |-> web]

Fields == {"upload_file_minidump", "upload_file_minidump_2", "log"}

\* data/etc/glaucium/dev_config.toml, the same with S3 in place of the spool's own
\* storage, S3 beside the spool from the start, and a misspelt destination.
Keeping   == Config(<<"fs">>, <<"fs", "es">>, TRUE, FALSE, "fs")
Moving    == Config(<<"fs">>, <<"s3", "es">>, TRUE, TRUE, "s3")
Mirroring == Config(<<"fs", "s3">>, <<"s3", "null", "es">>, FALSE, TRUE, "fs")
Searching == Config(<<"fs">>, <<"es", "fs">>, FALSE, FALSE, "fs")

AllConfigs    == {Keeping, Moving, Mirroring, Searching}
SearchingOnly == {Searching}
=============================================================================
