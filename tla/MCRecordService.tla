---------------------------- MODULE MCRecordService ----------------------------
EXTENDS RecordService
================================================================================
