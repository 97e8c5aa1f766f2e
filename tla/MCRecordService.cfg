CONSTANTS
  Pid = {"video", "audio"}
SPECIFICATION FairSpec
INVARIANTS IInv WritesToItsFile WantedIsRecorded
PROPERTIES ErrorEndsRecording
