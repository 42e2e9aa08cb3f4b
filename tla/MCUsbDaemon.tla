---------------------------- MODULE MCUsbDaemon ----------------------------
\* The daemon with two threads in its pool and one pipe.
EXTENDS UsbDaemon
=============================================================================
