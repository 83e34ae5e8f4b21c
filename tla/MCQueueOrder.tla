---------------------------- MODULE MCQueueOrder ----------------------------
EXTENDS QueueOrder
=============================================================================
