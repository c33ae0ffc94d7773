SPECIFICATION FESpec
CONSTANTS
  Submissions = {s1, s2, s3}
  Texts = {"add_u32", "long"}
  Long = {"long"}
  Duration = 2
  Examples = {"add_u32"}
  MaxCopies = 2
CHECK_DEADLOCK FALSE
INVARIANTS SingleFlight BusyShown VerdictFitsIR SilentOnlyAfterIR IRReadable PageAgrees CopiedFits
PROPERTIES FormReleased ToastStays
