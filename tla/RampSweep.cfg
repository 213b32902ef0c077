CONSTANTS
    Floors <- MenuFloors
    Ceilings <- MenuCeilings
    StepCounts <- MenuSteps
    Levels <- MenuLevels
SPECIFICATION Spec
PROPERTIES StaysInRange BouncesAtTheEnds SweepsWholeRange
