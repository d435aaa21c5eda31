CONSTANT N = 6
SPECIFICATION Spec
INVARIANTS ListExact TreeExact AddRebuilds
