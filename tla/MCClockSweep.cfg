CONSTANT PoolSize = 4
SPECIFICATION SweepSpec
INVARIANTS SecondLoopNeverRunsDry
PROPERTIES SweepImplementsPolicy EveryCandidateLeaves
