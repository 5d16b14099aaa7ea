SPECIFICATION Spec
CONSTANTS
    DumpNames <- Fields
    Minidump = "upload_file_minidump"
    Minidumps = {"upload_file_minidump", "upload_file_minidump_2"}
    DumpField = "upload_file_minidump"
    Configs <- SearchingOnly
    MaxWeek = 2
    MaxReprocess = 1
    Refusals = FALSE
INVARIANT StoredReportsKeepStack
CHECK_DEADLOCK FALSE
