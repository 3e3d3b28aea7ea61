SPECIFICATION FairSpec
CONSTANT SAMPLES = 2
INVARIANTS SleepsThrough PointerSet ReadsItsOwn
PROPERTY PressNoticed
