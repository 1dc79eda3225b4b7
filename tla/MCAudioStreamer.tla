-------------------------- MODULE MCAudioStreamer ---------------------------
EXTENDS AudioStreamer
BothModes == {TRUE, FALSE}
LiveOnly == {TRUE}
=============================================================================
