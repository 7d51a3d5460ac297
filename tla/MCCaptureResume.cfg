CONSTANTS
    PoolSize = 2
    QueueSize = 3
    SampleEvery = 2
    MaxFrames = 2
    Formats = {Bgra, Fp16}
    Bgra = Bgra
    MaxPools = 2
    NoTex = NoTex
SPECIFICATION FairSpec
PROPERTIES CaptureResumes
