CONSTANT N = 2
SPECIFICATION FairSpec
PROPERTY NoStarvation
