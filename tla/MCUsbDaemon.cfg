CONSTANTS
    Threads = {t1, t2}
    NbPipes = 1
SPECIFICATION UsbLiveSpec
INVARIANTS NoStragglers 
PROPERTIES StopsEnd SignalHeeded
