SPECIFICATION Spec
CONSTANT N = 3
PROPERTY JumpStartsFirst
