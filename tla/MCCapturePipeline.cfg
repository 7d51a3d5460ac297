CONSTANTS
    PoolSize = 2
    QueueSize = 3
    SampleEvery = 2
    MaxFrames = 6
    Formats = {Bgra, Fp16}
    Bgra = Bgra
    MaxPools = 2
    NoTex = NoTex
SPECIFICATION Spec
INVARIANTS TypeOK TexturesCounted FullTurn
