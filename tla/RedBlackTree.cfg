SPECIFICATION Spec
CONSTANTS
  n1 = n1 n2 = n2 n3 = n3 n4 = n4 n5 = n5 n6 = n6 n7 = n7
  Node = {n1, n2, n3, n4, n5, n6, n7}
  Nil = Nil
  Modulus = 16
  MaxErased = 1
  Holds <- OneKeyEach
INVARIANTS TypeOK TreeIsSound
PROPERTIES ImplementsList CallsReturn
